---- MODULE Spec2Model ----
(***************************************************************************)
(* State-machine model of the storage and maintenance core of the tick8    *)
(* backend (src/src/app/backend/server.js): per-user lazy initialization,  *)
(* the decay algorithm, the sequential repository operations, the          *)
(* maintenance gates and the file write paths.                             *)
(***************************************************************************)
EXTENDS Integers, Sequences, FiniteSets, TLC

VARIABLES
  \* ---- lazy initialization (UserFileService.ensureUserDataDir) ----
  ePc,               \* position of each ensureUserDataDir caller
  eAwait,            \* the initialization run a caller awaits (0: none)
  eSawDir,           \* result of the caller's fileExists(userDir)
  initializingUsers, \* registry entry of the user: a run id, or NoEntry
  runPc,             \* position of each _initializeUserDir run
  runCopies,         \* default course files a run has still to copy
  runSettled,        \* "pending", "resolved" or "rejected" promise of a run
  dirExists,         \* the user's directory exists
  userCourses,       \* the user's courses.json: "absent", "empty", "default"
  userFiles,         \* default course files present in the user's directory
  defaultIndex,      \* a system-wide default courses.json exists
  defaultSrc,        \* default course files that exist in the data directory
  callCount,         \* ensureUserDataDir calls made so far
  initStarted,       \* _initializeUserDir runs started so far
  completeAtReturn,  \* per caller: initialization was complete when it returned
  \* ---- decay algorithm (DecayService.applyDecay) ----
  dPhase,            \* "input", "once" (applied once) or "twice"
  dVocab,            \* the vocabulary list handed to applyDecay
  dPageSize,         \* the pageSize handed to applyDecay
  dFirst,            \* result {vocab, modified} of applyDecay(dVocab, dPageSize)
  dSecond,           \* result of applyDecay(dFirst.vocab, dPageSize)
  dHeap,             \* the states arrays in memory, by address
  dRefs,             \* per item of the caller's list: address of its states array
  \* ---- one user's repository, requests handled one at a time ----
  now,               \* the wall clock, ms (new Date()), relative to a week start
  tickCount,         \* clock advances so far
  opCount,           \* requests handled so far
  courses,           \* users/<u>/courses.json: the course index
  vocab,             \* users/<u>/<filename>: vocab file content by filename
  serverState,       \* users/<u>/server_state.json
  snapshots,         \* users/<u>/snapshots/snapshot-<id>.json by id
  lastOp,            \* the request handled last
  response,          \* its response
  atCreate,          \* per snapshot id: index, vocab files and note passed at its creation
  decayDays,         \* dates for which a decay check has returned
  changedByOp,       \* the last request changed the index or a vocab file
  \* ---- vocab file operations of UserFileService ----
  fileOp,            \* the operation called last: load, save or delete
  fileArg,           \* the filename it was called with
  fileOutcome,       \* "ok", "NotFound" or "InvalidInput"
  ioLog,             \* the filesystem calls it issued, in order
  userDirExists,     \* the user's directory exists
  storedNames,       \* names of the vocab files in the user's directory
  fileOpCount,       \* operations called so far
  \* ---- writers of one file ----
  wNow,              \* Date.now(), ms
  wPc,               \* per writer: "idle", "writing", "renaming", "done", "failed"
  wMethod,           \* per writer: "direct" (FileSystemAdapter.write) or "atomic"
  wData,             \* per writer: the content it writes
  wTmp,              \* per writer: tmpPath of its atomicWrite
  wInode,            \* per writer: the file its descriptor is open on
  wPos,              \* per writer: chunks written so far (descriptor offset)
  dirEntries,        \* the directory: path -> file
  inodes,            \* content of every file
  wOld,              \* content of the target before any write
  processUp,         \* the server process is running
  wFaulted,          \* some fs.writeFile has been rejected
  \* ---- overlapping maintenance requests (on the repository above) ----
  mPc,               \* per request: "idle", "loadState", "work", "saveState", "done"
  mKind,             \* per request: "decay" or "auto" (checkAutoSnapshot)
  mUnit,             \* per request: its `today`, or its weekNumber
  mLocal,            \* per request: the state object loadState returned
  decayRuns,         \* per date: how many requests ran the decay algorithm
  \* ---- one createSnapshot call among the requests of the repository ----
  sPc,               \* "idle", "loadCourses", "loadFiles", "done"
  sId,               \* the id the call took from the clock
  sCourses,          \* const courses = await this.loadCourses(email)
  sFiles,            \* vocabFiles, as filled so far
  sPending,          \* courses whose loadVocabFile has not resolved yet
  sSeen,             \* every content index and vocab files had during the call
  \* ---- GET /api/courses with its checkAutoSnapshot, operations may fail ----
  cPc,               \* "idle", "ensure", "loadState", "createSnapshot", "saveState", "checked"
  cEmail,            \* req.user.email
  cIndexReadable,    \* courses.json can be read and parsed
  cCheck,            \* how the last checkAutoSnapshot call ended
  cLocal,            \* const state = await this.loadState(email)
  cWeek,             \* const weekNumber
  \* ---- the snapshot files of the repository above ----
  corrupt,           \* ids of the snapshot files that cannot be read or parsed
  \* ---- overlapping deleteVocabFile calls of one user ----
  delPc,             \* position of each deleteVocabFile call
  delFile,           \* its filename argument
  delSaw,            \* what its fileExists(filepath) resolved to
  delOutcome,        \* how the call ended
  delStored,         \* the vocab files in the user's directory
  \* ---- the data directories of several users ----
  nsDirs,            \* data directory path -> the user whose data is stored in it
  nsOp,              \* the last operation
  nsEmail,           \* the email it was made for
  nsOutcome,         \* how it ended
  nsRead,            \* the user whose data it read
  nsOps,             \* operations so far
  \* ---- FileSystemAdapter ----
  adOp,              \* the adapter operation called last
  adPath,            \* its path argument
  adFull,            \* this.resolve(path)
  \* ---- overlapping DELETE /api/courses/:id requests ----
  cdPc,              \* position of each DELETE /api/courses/:id request
  cdCourseId,        \* its req.params.id, as the filename it looks for
  cdCourses,         \* its const courses = await loadCourses(email)
  cdStatus,          \* the status of its response (0: none yet)
  cdIndex,           \* the filenames in the stored courses.json
  cdFiles,           \* the vocab files in the user directory
  \* ---- overlapping POST /api/courses requests ----
  ccPc,              \* position of each POST /api/courses request
  ccName,            \* its req.body.name
  ccContent,         \* its req.body.content
  ccFilename,        \* its safeFilename
  ccStatus,          \* the status of its response (0: none yet)
  ccStored,          \* the course files of the user in storage: filename -> content
  \* ---- the user directory with server_state.json ----
  sfDir,             \* the files of the user directory: filename -> content
  sfSnapshot,        \* the vocabFiles of the stored snapshot
  sfOp,              \* the last operation
  sfOps,             \* operations so far
  \* ---- a vocab file in legacy or extended form ----
  efFile,            \* the stored vocab file: its form, metadata and items
  efOp,              \* the last operation on it
  efArg,             \* the inputs of that operation
  efStatus,          \* the status of its response
  efOps,             \* operations so far
  \* ---- the page loop of decay ----
  plStored,          \* course.pageSize in the index (Undefined: none)
  plPc,              \* where the decay of the course is
  plLength,          \* result.length
  plPageStart,       \* pageStart of the page loop
  plIterations       \* iterations of the page loop so far

ensureVars == <<ePc, eAwait, eSawDir, initializingUsers, runPc, runCopies,
                runSettled, dirExists, userCourses, userFiles, defaultIndex,
                defaultSrc, callCount, initStarted, completeAtReturn>>

decayVars == <<dPhase, dVocab, dPageSize, dFirst, dSecond, dHeap, dRefs>>

repoVars == <<now, tickCount, opCount, courses, vocab, serverState, snapshots,
              lastOp, response, atCreate, decayDays, changedByOp>>

filesVars == <<fileOp, fileArg, fileOutcome, ioLog, userDirExists, storedNames,
               fileOpCount>>

writeVars == <<wNow, wPc, wMethod, wData, wTmp, wInode, wPos, dirEntries, inodes,
               wOld, processUp, wFaulted>>

maintVars == <<mPc, mKind, mUnit, mLocal, decayRuns>>

snapVars == <<sPc, sId, sCourses, sFiles, sPending, sSeen>>

checkVars == <<cPc, cEmail, cIndexReadable, cCheck, cLocal, cWeek>>

storeVars == <<corrupt>>

deleteVars == <<delPc, delFile, delSaw, delOutcome, delStored>>

namespaceVars == <<nsDirs, nsOp, nsEmail, nsOutcome, nsRead, nsOps>>

adapterVars == <<adOp, adPath, adFull>>

courseDeleteVars == <<cdPc, cdCourseId, cdCourses, cdStatus, cdIndex, cdFiles>>

courseCreateVars == <<ccPc, ccName, ccContent, ccFilename, ccStatus, ccStored>>

stateFileVars == <<sfDir, sfSnapshot, sfOp, sfOps>>

extendedVars == <<efFile, efOp, efArg, efStatus, efOps>>

pageLoopVars == <<plStored, plPc, plLength, plPageStart, plIterations>>

vars == <<ensureVars, decayVars, repoVars, filesVars, writeVars, maintVars, snapVars,
          checkVars, storeVars, deleteVars, namespaceVars, adapterVars, courseDeleteVars, courseCreateVars, stateFileVars, extendedVars, pageLoopVars>>

\* What each part of the model leaves alone.
otherThanEnsure == <<decayVars, repoVars, filesVars, writeVars, maintVars, snapVars, checkVars, storeVars, deleteVars, namespaceVars, adapterVars, courseDeleteVars, courseCreateVars, stateFileVars, extendedVars, pageLoopVars>>
otherThanDecay == <<ensureVars, repoVars, filesVars, writeVars, maintVars, snapVars, checkVars, storeVars, deleteVars, namespaceVars, adapterVars, courseDeleteVars, courseCreateVars, stateFileVars, extendedVars, pageLoopVars>>
otherThanRepo == <<ensureVars, decayVars, filesVars, writeVars, maintVars, snapVars, checkVars, storeVars, deleteVars, namespaceVars, adapterVars, courseDeleteVars, courseCreateVars, stateFileVars, extendedVars, pageLoopVars>>
otherThanFiles == <<ensureVars, decayVars, repoVars, writeVars, maintVars, snapVars, checkVars, storeVars, deleteVars, namespaceVars, adapterVars, courseDeleteVars, courseCreateVars, stateFileVars, extendedVars, pageLoopVars>>
otherThanRepoAndMaint == <<ensureVars, decayVars, filesVars, writeVars, snapVars, checkVars, storeVars, deleteVars, namespaceVars, adapterVars, courseDeleteVars, courseCreateVars, stateFileVars, extendedVars, pageLoopVars>>
otherThanRepoAndSnap == <<ensureVars, decayVars, filesVars, writeVars, maintVars, checkVars, storeVars, deleteVars, namespaceVars, adapterVars, courseDeleteVars, courseCreateVars, stateFileVars, extendedVars, pageLoopVars>>
otherThanRepoAndCheck == <<ensureVars, decayVars, filesVars, writeVars, maintVars, snapVars, storeVars, deleteVars, namespaceVars, adapterVars, courseDeleteVars, courseCreateVars, stateFileVars, extendedVars, pageLoopVars>>
otherThanRepoAndStore == <<ensureVars, decayVars, filesVars, writeVars, maintVars, snapVars,
                          checkVars, deleteVars, namespaceVars, adapterVars, courseDeleteVars, courseCreateVars, stateFileVars, extendedVars, pageLoopVars>>
otherThanWrite == <<ensureVars, decayVars, repoVars, filesVars, maintVars, snapVars, checkVars, storeVars, deleteVars, namespaceVars, adapterVars, courseDeleteVars, courseCreateVars, stateFileVars, extendedVars, pageLoopVars>>
otherThanPageLoop == <<ensureVars, decayVars, repoVars, filesVars, writeVars, maintVars, snapVars, checkVars, storeVars, deleteVars, namespaceVars, adapterVars, courseDeleteVars, courseCreateVars, stateFileVars, extendedVars>>
otherThanExtended == <<ensureVars, decayVars, repoVars, filesVars, writeVars, maintVars, snapVars, checkVars, storeVars, deleteVars, namespaceVars, adapterVars, courseDeleteVars, courseCreateVars, stateFileVars, pageLoopVars>>
otherThanStateFile == <<ensureVars, decayVars, repoVars, filesVars, writeVars, maintVars, snapVars, checkVars, storeVars, deleteVars, namespaceVars, adapterVars, courseDeleteVars, courseCreateVars, extendedVars, pageLoopVars>>
otherThanCourseCreate == <<ensureVars, decayVars, repoVars, filesVars, writeVars, maintVars, snapVars, checkVars, storeVars, deleteVars, namespaceVars, adapterVars, courseDeleteVars, stateFileVars, extendedVars, pageLoopVars>>
otherThanCourseDelete == <<ensureVars, decayVars, repoVars, filesVars, writeVars, maintVars, snapVars, checkVars, storeVars, deleteVars, namespaceVars, adapterVars, courseCreateVars, stateFileVars, extendedVars, pageLoopVars>>

\* ------------------------------------------------------------------------
\* Bounds of the model
\* ------------------------------------------------------------------------
NumCallers == 2
MaxCalls == 3
NumDefaultCourses == 1
MaxItems == 3
MaxStates == 2
MaxLongItems == 2
MaxLongStates == 4
MaxEmailLen == 2
MaxPathLen == 4
MaxIterations == 4
MaxTicks == 2
MaxOps == 3
MaxNameLen == 2
MaxFileOps == 2
NumWriters == 2
MaxChunks == 2
NumRequests == 2

Callers == 1..NumCallers
Runs == 1..MaxCalls
DefaultCourses == 1..NumDefaultCourses
NoEntry == 0

\* ========================================================================
\* Lazy per-user initialization: ensureUserDataDir / _initializeUserDir
\* ========================================================================

\* finally { initializingUsers.delete(sanitizedEmail) } after a failed init:
\* the entry is kept (the bug the claim guards against).
AfterInitSettledKeepOnFailure(reg, ok) == IF ok THEN NoEntry ELSE reg

\* try { await initPromise } finally { initializingUsers.delete(...) }:
\* the entry is deleted whether the run resolved or rejected.
AfterInitSettled(reg, ok) == NoEntry

\* The directory-creation/default-copy sequence has been carried out in full.
InitComplete ==
  /\ \A r \in Runs : runPc[r] \in {"unused", "done", "failed"}
  /\ userCourses # "absent"
  /\ defaultIndex => \A f \in defaultSrc : f \in userFiles

EnsureInit ==
  /\ ePc = [c \in Callers |-> "idle"]
  /\ eAwait = [c \in Callers |-> 0]
  /\ eSawDir = [c \in Callers |-> FALSE]
  /\ initializingUsers = NoEntry
  /\ runPc = [r \in Runs |-> "unused"]
  /\ runCopies = [r \in Runs |-> {}]
  /\ runSettled = [r \in Runs |-> "pending"]
  /\ dirExists = FALSE
  /\ userCourses = "absent"
  /\ userFiles = {}
  /\ defaultIndex \in BOOLEAN
  /\ defaultSrc \in SUBSET DefaultCourses
  /\ callCount = 0
  /\ initStarted = 0
  /\ completeAtReturn = [c \in Callers |-> FALSE]

\* A caller enters ensureUserDataDir: the registry is consulted synchronously;
\* with an entry the caller awaits it, without one it issues fileExists(userDir).
EnsureCall(c) ==
  /\ ePc[c] \in {"idle", "returned", "thrown"}
  /\ callCount < MaxCalls
  /\ callCount' = callCount + 1
  /\ IF initializingUsers # NoEntry
       THEN /\ ePc' = [ePc EXCEPT ![c] = "waiting"]
            /\ eAwait' = [eAwait EXCEPT ![c] = initializingUsers]
       ELSE /\ ePc' = [ePc EXCEPT ![c] = "checking"]
            /\ eAwait' = [eAwait EXCEPT ![c] = 0]
  /\ UNCHANGED <<eSawDir, initializingUsers, runPc, runCopies, runSettled,
                 dirExists, userCourses, userFiles, defaultIndex, defaultSrc,
                 initStarted, completeAtReturn>>
  /\ UNCHANGED otherThanEnsure

\* fs.access(userDir) completes in the thread pool.
EnsureAccess(c) ==
  /\ ePc[c] = "checking"
  /\ ePc' = [ePc EXCEPT ![c] = "checked"]
  /\ eSawDir' = [eSawDir EXCEPT ![c] = dirExists]
  /\ UNCHANGED <<eAwait, initializingUsers, runPc, runCopies, runSettled,
                 dirExists, userCourses, userFiles, defaultIndex, defaultSrc,
                 callCount, initStarted, completeAtReturn>>
  /\ UNCHANGED otherThanEnsure

\* The caller resumes after `await fileExists(userDir)` and found the directory.
EnsureFound(c) ==
  /\ ePc[c] = "checked"
  /\ eSawDir[c]
  /\ ePc' = [ePc EXCEPT ![c] = "returned"]
  /\ completeAtReturn' = [completeAtReturn EXCEPT ![c] = InitComplete]
  /\ UNCHANGED <<eAwait, eSawDir, initializingUsers, runPc, runCopies,
                 runSettled, dirExists, userCourses, userFiles, defaultIndex,
                 defaultSrc, callCount, initStarted>>
  /\ UNCHANGED otherThanEnsure

\* The caller resumes, found no directory: it calls _initializeUserDir (which
\* issues fs.mkdir before its first await), stores the promise and awaits it.
EnsureStartInit(c) ==
  /\ ePc[c] = "checked"
  /\ ~eSawDir[c]
  /\ LET r == initStarted + 1 IN
       /\ initStarted' = r
       /\ runPc' = [runPc EXCEPT ![r] = "mkdir"]
       /\ initializingUsers' = r
       /\ eAwait' = [eAwait EXCEPT ![c] = r]
  /\ ePc' = [ePc EXCEPT ![c] = "awaitInit"]
  /\ UNCHANGED <<eSawDir, runCopies, runSettled, dirExists, userCourses,
                 userFiles, defaultIndex, defaultSrc, callCount,
                 completeAtReturn>>
  /\ UNCHANGED otherThanEnsure

\* The promise of run r settles: in the same turn of the event loop the caller
\* that started it runs its finally block and every caller awaiting it resumes.
Settle(r, ok, courses2, files2) ==
  /\ runSettled' = [runSettled EXCEPT ![r] = IF ok THEN "resolved" ELSE "rejected"]
  /\ initializingUsers' = AfterInitSettled(initializingUsers, ok)
  /\ ePc' = [c \in Callers |->
               IF ePc[c] \in {"awaitInit", "waiting"} /\ eAwait[c] = r
                 THEN IF ok THEN "returned" ELSE "thrown"
                 ELSE ePc[c]]
  /\ completeAtReturn' = [c \in Callers |->
               IF ePc[c] \in {"awaitInit", "waiting"} /\ eAwait[c] = r
                 THEN /\ ok
                      /\ \A q \in Runs \ {r} : runPc[q] \in {"unused", "done", "failed"}
                      /\ courses2 # "absent"
                      /\ defaultIndex => \A f \in defaultSrc : f \in files2
                 ELSE completeAtReturn[c]]

\* await fs.mkdir(userDir, {recursive: true})
InitMkdir(r) ==
  /\ runPc[r] = "mkdir"
  /\ dirExists' = TRUE
  /\ runPc' = [runPc EXCEPT ![r] = "checkDefault"]
  /\ UNCHANGED <<ePc, eAwait, eSawDir, initializingUsers, runCopies, runSettled,
                 userCourses, userFiles, defaultIndex, defaultSrc, callCount,
                 initStarted, completeAtReturn>>
  /\ UNCHANGED otherThanEnsure

\* await fileExists(defaultCoursesPath)
InitCheckDefault(r) ==
  /\ runPc[r] = "checkDefault"
  /\ runPc' = [runPc EXCEPT ![r] = IF defaultIndex THEN "readDefault" ELSE "writeEmpty"]
  /\ UNCHANGED <<ePc, eAwait, eSawDir, initializingUsers, runCopies, runSettled,
                 dirExists, userCourses, userFiles, defaultIndex, defaultSrc,
                 callCount, initStarted, completeAtReturn>>
  /\ UNCHANGED otherThanEnsure

\* No default set: await atomicWrite(courses.json, []); return.
InitWriteEmpty(r) ==
  /\ runPc[r] = "writeEmpty"
  /\ userCourses' = "empty"
  /\ runPc' = [runPc EXCEPT ![r] = "done"]
  /\ Settle(r, TRUE, "empty", userFiles)
  /\ UNCHANGED <<eAwait, eSawDir, runCopies, dirExists, userFiles, defaultIndex,
                 defaultSrc, callCount, initStarted>>
  /\ UNCHANGED otherThanEnsure

\* JSON.parse(await fs.readFile(defaultCoursesPath))
InitReadDefault(r) ==
  /\ runPc[r] = "readDefault"
  /\ runPc' = [runPc EXCEPT ![r] = "writeCourses"]
  /\ UNCHANGED <<ePc, eAwait, eSawDir, initializingUsers, runCopies, runSettled,
                 dirExists, userCourses, userFiles, defaultIndex, defaultSrc,
                 callCount, initStarted, completeAtReturn>>
  /\ UNCHANGED otherThanEnsure

\* await atomicWrite(courses.json, courses); then courses.map(...) starts one
\* copy task per default course, joined by Promise.all.
InitWriteCourses(r) ==
  /\ runPc[r] = "writeCourses"
  /\ userCourses' = "default"
  /\ IF DefaultCourses = {}
       THEN /\ runPc' = [runPc EXCEPT ![r] = "done"]
            /\ Settle(r, TRUE, "default", userFiles)
            /\ UNCHANGED runCopies
       ELSE /\ runPc' = [runPc EXCEPT ![r] = "copy"]
            /\ runCopies' = [runCopies EXCEPT ![r] = DefaultCourses]
            /\ UNCHANGED <<ePc, initializingUsers, runSettled, completeAtReturn>>
  /\ UNCHANGED <<eAwait, eSawDir, dirExists, userFiles, defaultIndex, defaultSrc,
                 callCount, initStarted>>
  /\ UNCHANGED otherThanEnsure

\* One copy task: if (await fileExists(srcPath)) await fs.copyFile(src, dest).
\* The last task to finish resolves Promise.all.
InitCopy(r, f) ==
  /\ runPc[r] = "copy"
  /\ f \in runCopies[r]
  /\ LET files2 == IF f \in defaultSrc THEN userFiles \cup {f} ELSE userFiles
         left == runCopies[r] \ {f}
     IN /\ userFiles' = files2
        /\ runCopies' = [runCopies EXCEPT ![r] = left]
        /\ IF left = {}
             THEN /\ runPc' = [runPc EXCEPT ![r] = IF runSettled[r] = "pending"
                                                    THEN "done" ELSE "failed"]
                  /\ IF runSettled[r] = "pending"
                       THEN Settle(r, TRUE, userCourses, files2)
                       ELSE UNCHANGED <<ePc, initializingUsers, runSettled,
                                        completeAtReturn>>
             ELSE UNCHANGED <<ePc, initializingUsers, runPc, runSettled,
                              completeAtReturn>>
  /\ UNCHANGED <<eAwait, eSawDir, dirExists, userCourses, defaultIndex,
                 defaultSrc, callCount, initStarted>>
  /\ UNCHANGED otherThanEnsure

\* A copy task fails (fs.copyFile rejects): Promise.all rejects at once, while
\* the other copy tasks go on.
InitCopyFails(r, f) ==
  /\ runPc[r] = "copy"
  /\ f \in runCopies[r]
  /\ f \in defaultSrc
  /\ LET left == runCopies[r] \ {f}
     IN /\ runCopies' = [runCopies EXCEPT ![r] = left]
        /\ runPc' = [runPc EXCEPT ![r] = IF left = {} THEN "failed" ELSE "copy"]
        /\ IF runSettled[r] = "pending"
             THEN Settle(r, FALSE, userCourses, userFiles)
             ELSE UNCHANGED <<ePc, initializingUsers, runSettled, completeAtReturn>>
  /\ UNCHANGED <<eAwait, eSawDir, dirExists, userCourses, userFiles,
                 defaultIndex, defaultSrc, callCount, initStarted>>
  /\ UNCHANGED otherThanEnsure

\* An I/O step before the copy phase fails (mkdir, readFile/JSON.parse or
\* atomicWrite throws): the run's promise rejects.
InitStepFails(r) ==
  /\ runPc[r] \in {"mkdir", "readDefault", "writeEmpty", "writeCourses"}
  /\ runPc' = [runPc EXCEPT ![r] = "failed"]
  /\ Settle(r, FALSE, userCourses, userFiles)
  /\ UNCHANGED <<eAwait, eSawDir, runCopies, dirExists, userCourses, userFiles,
                 defaultIndex, defaultSrc, callCount, initStarted>>
  /\ UNCHANGED otherThanEnsure

EnsureNext ==
  \/ \E c \in Callers : EnsureCall(c)
  \/ \E c \in Callers : EnsureAccess(c)
  \/ \E c \in Callers : EnsureFound(c)
  \/ \E c \in Callers : EnsureStartInit(c)
  \/ \E r \in Runs : InitMkdir(r)
  \/ \E r \in Runs : InitCheckDefault(r)
  \/ \E r \in Runs : InitWriteEmpty(r)
  \/ \E r \in Runs : InitReadDefault(r)
  \/ \E r \in Runs : InitWriteCourses(r)
  \/ \E r \in Runs, f \in DefaultCourses : InitCopy(r, f)
  \/ \E r \in Runs, f \in DefaultCourses : InitCopyFails(r, f)
  \/ \E r \in Runs : InitStepFails(r)

\* C1: N concurrent first calls of ensureUserDataDir for a new user start the
\* directory-creation/default-copy sequence (_initializeUserDir) exactly once:
\* no second run is ever started.
C1_InitStartedOnce == initStarted <= 1

\* C7: once every ensureUserDataDir call has returned or thrown the registry
\* holds no entry for the user, after success and after failure alike, and a
\* caller that waits on a registry entry waits on a run that is still pending.
C7_RegistryCleared ==
  /\ (\A c \in Callers : ePc[c] \in {"idle", "returned", "thrown"})
        => initializingUsers = NoEntry
  /\ \A c \in Callers : ePc[c] = "waiting" => runSettled[eAwait[c]] = "pending"

\* C7 witness: all calls are over, one of them threw after a failed
\* initialization, a later call was made, and the registry is empty.
C7_Witness ==
  /\ \A c \in Callers : ePc[c] \in {"returned", "thrown"}
  /\ \E c \in Callers : ePc[c] = "thrown"
  /\ \E r \in Runs : runSettled[r] = "rejected"
  /\ callCount = MaxCalls
  /\ initializingUsers = NoEntry

\* C8: whenever ensureUserDataDir returns normally the user's one-time
\* initialization is complete: no run in progress, courses.json present and
\* every existing default course file copied.
C8_ReturnMeansInitialized ==
  \A c \in Callers : ePc[c] = "returned" => completeAtReturn[c]

\* ========================================================================
\* DecayService.applyDecay
\* ========================================================================

\* State = none | tick | cross | boost.  The algorithm only ever compares a
\* state with 'none', so a cross is handled exactly as a tick is; the inputs
\* are drawn from the other three values.
InputStates == {"none", "tick", "boost"}

\* Sequences over S of length 0..n.
RECURSIVE SeqsUpTo(_, _)
SeqsUpTo(S, n) ==
  IF n = 0 THEN {<<>>}
  ELSE LET shorter == SeqsUpTo(S, n - 1)
       IN shorter \cup {Append(q, x) : q \in {t \in shorter : Len(t) = n - 1}, x \in S}

\* A vocabulary item as far as decay reads it: whether it carries a states
\* array at all (item.states may be missing) and the array.
ItemInputs ==
  {[hasStates |-> TRUE, states |-> q] : q \in SeqsUpTo(InputStates, MaxStates)}
    \cup {[hasStates |-> FALSE, states |-> <<>>]}

VocabInputs == SeqsUpTo(ItemInputs, MaxItems)

\* A pageSize larger than the list behaves like one page.
PageSizeInputs == 1..(MaxItems + 1)

\* item.states?.filter(s => s !== 'none').length || 0
FilledCount(states) == Cardinality({i \in DOMAIN states : states[i] # "none"})

\* The filled states of the whole list, whatever the page.
TotalFilledWholeList(result, from, to) ==
  LET RECURSIVE SumFrom(_)
      SumFrom(i) == IF i > Len(result) THEN 0
                    ELSE FilledCount(result[i].states) + SumFrom(i + 1)
  IN SumFrom(1)

\* pageItems.reduce((sum, item) => sum + filled(item), 0) over result[from..to]
RECURSIVE TotalFilled(_, _, _)
TotalFilled(result, from, to) ==
  IF from > to THEN 0
  ELSE FilledCount(result[from].states) + TotalFilled(result, from + 1, to)

\* Math.floor(totalFilled / pageItems.length), rounded up instead.
AvgFilledCeil(total, n) == (total + n - 1) \div n

\* Math.floor(totalFilled / pageItems.length)
AvgFilled(total, n) == total \div n

\* The decay loop without `modified = true`.
RemoveLoopSilent(states, pos, toRemove, modified) ==
  LET RECURSIVE Down(_, _, _)
      Down(st, at, left) ==
        IF at < 1 \/ left = 0 THEN [states |-> st, modified |-> modified]
        ELSE IF st[at] # "none"
          THEN Down([st EXCEPT ![at] = "none"], at - 1, left - 1)
          ELSE Down(st, at - 1, left)
  IN Down(states, pos, toRemove)

\* The decay loop run from the lowest index upwards.
RemoveLoopFromStart(states, pos, toRemove, modified) ==
  LET RECURSIVE Up(_, _, _, _)
      Up(st, at, left, m) ==
        IF at > Len(st) \/ left = 0 THEN [states |-> st, modified |-> m]
        ELSE IF st[at] # "none"
          THEN Up([st EXCEPT ![at] = "none"], at + 1, left - 1, TRUE)
          ELSE Up(st, at + 1, left, m)
  IN Up(states, 1, toRemove, modified)

\* for (pos = states.length - 1; pos >= 0 && removed < toRemove; pos--)
\*   if (states[pos] !== 'none') { states[pos] = 'none'; removed++; modified = true }
RECURSIVE RemoveLoop(_, _, _, _)
RemoveLoop(states, pos, toRemove, modified) ==
  IF pos < 1 \/ toRemove = 0 THEN [states |-> states, modified |-> modified]
  ELSE IF states[pos] # "none"
    THEN RemoveLoop([states EXCEPT ![pos] = "none"], pos - 1, toRemove - 1, TRUE)
    ELSE RemoveLoop(states, pos - 1, toRemove, modified)

\* The boost loop writing a tick where the code writes 'boost'.
BoostLoopAsTick(states, pos, toAdd, modified) ==
  LET RECURSIVE Up(_, _, _, _)
      Up(st, at, left, m) ==
        IF at > Len(st) \/ left = 0 THEN [states |-> st, modified |-> m]
        ELSE IF st[at] = "none"
          THEN Up([st EXCEPT ![at] = "tick"], at + 1, left - 1, TRUE)
          ELSE Up(st, at + 1, left, m)
  IN Up(states, pos, toAdd, modified)

\* for (pos = 0; pos < states.length && added < toAdd; pos++)
\*   if (states[pos] === 'none') { states[pos] = 'boost'; added++; modified = true }
RECURSIVE BoostLoop(_, _, _, _)
BoostLoop(states, pos, toAdd, modified) ==
  IF pos > Len(states) \/ toAdd = 0 THEN [states |-> states, modified |-> modified]
  ELSE IF states[pos] = "none"
    THEN BoostLoop([states EXCEPT ![pos] = "boost"], pos + 1, toAdd - 1, TRUE)
    ELSE BoostLoop(states, pos + 1, toAdd, modified)

\* The item body with `>=` for `>`: an item at the average loses nothing in
\* count, but the branch is entered for it.
DecayItemEager(item, avgFilled, modified) ==
  IF Len(item.states) = 0 THEN [item |-> item, modified |-> modified]
  ELSE LET currentFilled == FilledCount(item.states)
           r == IF currentFilled >= avgFilled /\ currentFilled > 0
                  THEN RemoveLoop(item.states, Len(item.states),
                                  currentFilled - avgFilled + 1, modified)
                ELSE IF currentFilled < avgFilled
                  THEN BoostLoop(item.states, 1, avgFilled - currentFilled, modified)
                ELSE [states |-> item.states, modified |-> modified]
       IN [item |-> [item EXCEPT !.states = r.states], modified |-> r.modified]

\* The body of the item loop for one item of a page with average avgFilled.
DecayItem(item, avgFilled, modified) ==
  IF Len(item.states) = 0 THEN [item |-> item, modified |-> modified]
  ELSE LET currentFilled == FilledCount(item.states)
           r == IF currentFilled > avgFilled
                  THEN RemoveLoop(item.states, Len(item.states),
                                  currentFilled - avgFilled, modified)
                ELSE IF currentFilled < avgFilled
                  THEN BoostLoop(item.states, 1, avgFilled - currentFilled, modified)
                ELSE [states |-> item.states, modified |-> modified]
       IN [item |-> [item EXCEPT !.states = r.states], modified |-> r.modified]

\* for (let i = pageStart; i < pageEnd; i++) { ... }  (1-based: i..pageEnd)
RECURSIVE ItemLoop(_, _, _, _, _)
ItemLoop(result, i, pageEnd, avgFilled, modified) ==
  IF i > pageEnd THEN [vocab |-> result, modified |-> modified]
  ELSE LET d == DecayItem(result[i], avgFilled, modified)
       IN ItemLoop([result EXCEPT ![i] = d.item], i + 1, pageEnd, avgFilled, d.modified)

\* for (let pageStart = 0; pageStart < result.length; pageStart += pageSize)
\* (1-based: the page is result[pageStart..pageEnd]).
RECURSIVE PageLoop(_, _, _, _)
PageLoop(result, pageStart, pageSize, modified) ==
  IF pageStart > Len(result) THEN [vocab |-> result, modified |-> modified]
  ELSE LET pageEnd == IF pageStart + pageSize - 1 < Len(result)
                        THEN pageStart + pageSize - 1 ELSE Len(result)
           totalFilled == TotalFilled(result, pageStart, pageEnd)
           avgFilled == AvgFilled(totalFilled, pageEnd - pageStart + 1)
           page == ItemLoop(result, pageStart, pageEnd, avgFilled, modified)
       IN PageLoop(page.vocab, pageStart + pageSize, pageSize, page.modified)

\* vocab.map(item => ({...item, states: [...(item.states || [])]}))
CloneVocab(list) ==
  [i \in DOMAIN list |-> [list[i] EXCEPT !.hasStates = TRUE]]

\* DecayService.applyDecay(vocab, pageSize) -> {vocab, modified}
applyDecay(list, pageSize) == PageLoop(CloneVocab(list), 1, pageSize, FALSE)

NoResult == [vocab |-> <<>>, modified |-> FALSE]

\* The item has no states array.
NoRef == 0

\* The caller's list in memory: every item that has a states array refers to
\* an array of its own.
InputRefs(list) ==
  [i \in DOMAIN list |->
     IF list[i].hasStates THEN Cardinality({j \in 1..i : list[j].hasStates}) ELSE NoRef]
InputHeap(list) ==
  LET withStates == SelectSeq(list, LAMBDA item : item.hasStates)
  IN [a \in DOMAIN withStates |-> withStates[a].states]

\* ({...item}) alone: the copied item refers to the states array of the original.
CloneRefsShared(refs, heapSize) ==
  [i \in DOMAIN refs |-> IF refs[i] # NoRef THEN refs[i] ELSE heapSize + i]

\* ({...item, states: [...(item.states || [])]}): every copied item refers to
\* a newly allocated states array.
CloneRefs(refs, heapSize) == [i \in DOMAIN refs |-> heapSize + i]

\* Memory after applyDecay(list, pageSize) on a list whose items refer to the
\* arrays at refs: the assignments item.states[pos] = ... of the loops land in
\* the arrays the items of `result` refer to.
HeapAfter(heap, refs, list, pageSize) ==
  LET out == applyDecay(list, pageSize).vocab
      resultRefs == CloneRefs(refs, Len(heap))
  IN [a \in 1..(Len(heap) + Len(list)) |->
        IF \E i \in DOMAIN list : resultRefs[i] = a
          THEN out[CHOOSE i \in DOMAIN list : resultRefs[i] = a].states
          ELSE IF a <= Len(heap) THEN heap[a] ELSE <<>>]

\* Where the items of the first call's result keep their states arrays.
FirstRefs == [i \in DOMAIN dVocab |-> Len(dHeap) - Len(dVocab) + i]

DecayIdle ==
  /\ dPhase = "off"
  /\ dVocab = <<>>
  /\ dPageSize = 1
  /\ dFirst = NoResult
  /\ dSecond = NoResult
  /\ dHeap = <<>>
  /\ dRefs = <<>>

DecayInit ==
  /\ dPhase = "input"
  /\ dVocab \in VocabInputs
  /\ dPageSize \in PageSizeInputs
  /\ dFirst = NoResult
  /\ dSecond = NoResult
  /\ dHeap = InputHeap(dVocab)
  /\ dRefs = InputRefs(dVocab)

\* Lists whose states arrays differ more widely in length: nothing in the
\* backend fixes the length of the states array it stores for an item.
LongItemInputs ==
  {[hasStates |-> TRUE, states |-> q] : q \in SeqsUpTo({"none", "tick"}, MaxLongStates)}
LongVocabInputs == SeqsUpTo(LongItemInputs, MaxLongItems)

DecayInitLong ==
  /\ dPhase = "input"
  /\ dVocab \in LongVocabInputs
  /\ dPageSize \in 1..MaxLongItems
  /\ dFirst = NoResult
  /\ dSecond = NoResult
  /\ dHeap = InputHeap(dVocab)
  /\ dRefs = InputRefs(dVocab)

\* Lists of whole vocabulary items: id, word and answer next to the states
\* array, whose entries are any of the four review marks.
ReviewMarks == {"none", "tick", "cross", "boost"}
WholeItem(i, shape) ==
  [id |-> i, word |-> <<"word", i>>, answer |-> <<"answer", i>>,
   hasStates |-> shape.hasStates, states |-> shape.states]
StatesShapes ==
  {[hasStates |-> FALSE, states |-> <<>>]}
    \cup {[hasStates |-> TRUE, states |-> q] : q \in SeqsUpTo(ReviewMarks, MaxStates)}
WholeVocabInputs ==
  {[i \in DOMAIN shapes |-> WholeItem(i, shapes[i])] :
     shapes \in SeqsUpTo(StatesShapes, MaxItems)}

DecayInitWhole ==
  /\ dPhase = "input"
  /\ dVocab \in WholeVocabInputs
  /\ dPageSize \in PageSizeInputs
  /\ dFirst = NoResult
  /\ dSecond = NoResult
  /\ dHeap = InputHeap(dVocab)
  /\ dRefs = InputRefs(dVocab)

\* const first = DecayService.applyDecay(vocab, pageSize)
DecayOnce ==
  /\ dPhase = "input"
  /\ dFirst' = applyDecay(dVocab, dPageSize)
  /\ dPhase' = "once"
  /\ dHeap' = HeapAfter(dHeap, dRefs, dVocab, dPageSize)
  /\ UNCHANGED <<dVocab, dPageSize, dSecond, dRefs>>
  /\ UNCHANGED otherThanDecay

\* DecayService.applyDecay(first.vocab, pageSize)
DecayTwice ==
  /\ dPhase = "once"
  /\ dSecond' = applyDecay(dFirst.vocab, dPageSize)
  /\ dPhase' = "twice"
  /\ dHeap' = HeapAfter(dHeap, FirstRefs, dFirst.vocab, dPageSize)
  /\ UNCHANGED <<dVocab, dPageSize, dFirst, dRefs>>
  /\ UNCHANGED otherThanDecay

DecayNext == DecayOnce \/ DecayTwice

\* C2: decay is idempotent for every vocabulary list (states arrays of any
\* length, or missing) and every pageSize >= 1: a second applyDecay on the
\* output of the first returns modified = false and an output equal to its input.
C2_DecayIdempotent ==
  dPhase = "twice" => /\ dSecond.modified = FALSE
                      /\ dSecond.vocab = dFirst.vocab

\* ------------------------------------------------------------------------
\* What applyDecay is expected to return, stated without its loops
\* ------------------------------------------------------------------------

\* First and last position (1-based) of the page that holds position i.
PageStartOf(i, pageSize) == ((i - 1) \div pageSize) * pageSize + 1
PageEndOf(i, pageSize, n) ==
  IF PageStartOf(i, pageSize) + pageSize - 1 < n
    THEN PageStartOf(i, pageSize) + pageSize - 1 ELSE n

\* filledCount(item) = count(states[i] != none)
NumFilled(states) == Len(SelectSeq(states, LAMBDA st : st # "none"))

\* avgFilled = floor(sum(filledCount over page) / pageCount) of the page of i
ExpectedAvg(list, i, pageSize) ==
  LET from == PageStartOf(i, pageSize)
      to == PageEndOf(i, pageSize, Len(list))
      RECURSIVE Sum(_)
      Sum(j) == IF j > to THEN 0 ELSE NumFilled(list[j].states) + Sum(j + 1)
  IN Sum(from) \div (to - from + 1)

\* states with its k non-none entries of highest index set to none
HighestCleared(states, k) ==
  [p \in DOMAIN states |->
     IF /\ states[p] # "none"
        /\ Cardinality({q \in DOMAIN states : q > p /\ states[q] # "none"}) < k
       THEN "none" ELSE states[p]]

\* states with its k none entries of lowest index set to boost
LowestBoosted(states, k) ==
  [p \in DOMAIN states |->
     IF /\ states[p] = "none"
        /\ Cardinality({q \in DOMAIN states : q < p /\ states[q] = "none"}) < k
       THEN "boost" ELSE states[p]]

\* The positions at which two states arrays of one length differ.
ChangedAt(before, after) == {p \in DOMAIN before : after[p] # before[p]}

\* An item of `boxes` states of which the first k are ticked.
boxes == 8
TickedItem(k) ==
  [hasStates |-> TRUE, states |-> [p \in 1..boxes |-> IF p <= k THEN "tick" ELSE "none"]]
FilledCounts(list) == [i \in DOMAIN list |-> NumFilled(list[i].states)]

\* C12: page independence.  The output items of every page are exactly what
\* applyDecay returns for the items of that page alone, so two lists of one
\* length that agree on page k get identical output on page k however they
\* differ elsewhere, and a change on one page never changes another page's
\* result.
C12_PageIndependence ==
  dPhase # "input" =>
    \A i \in DOMAIN dVocab :
      LET from == PageStartOf(i, dPageSize)
          to == PageEndOf(i, dPageSize, Len(dVocab))
      IN SubSeq(dFirst.vocab, from, to)
           = applyDecay(SubSeq(dVocab, from, to), dPageSize).vocab

\* C12 witness: a list of two pages, the first changed by decay to its own
\* average while the second holds more filled states than the whole first.
C12_Witness ==
  /\ dPhase = "once"
  /\ dPageSize = 2
  /\ Len(dVocab) = 3
  /\ SubSeq(dFirst.vocab, 1, 2) # CloneVocab(SubSeq(dVocab, 1, 2))
  /\ NumFilled(dVocab[3].states) > NumFilled(dVocab[1].states) + NumFilled(dVocab[2].states)

\* C13: when every item has the same number of states (8 in the program),
\* after applyDecay each item's filled count equals avgFilled of its page,
\* the floor of the page's mean filled count before decay; filled counts
\* [4,4,0,0] with pageSize 4 give [2,2,2,2] and modified = true.
C13_FilledEqualsAverage ==
  /\ ( /\ dPhase # "input"
       /\ \A i \in DOMAIN dVocab :
            dVocab[i].hasStates /\ Len(dVocab[i].states) = Len(dVocab[1].states) )
     => \A i \in DOMAIN dVocab :
          NumFilled(dFirst.vocab[i].states) = ExpectedAvg(dVocab, i, dPageSize)
  /\ LET out == applyDecay(<<TickedItem(4), TickedItem(4), TickedItem(0), TickedItem(0)>>, 4)
     IN out.modified /\ FilledCounts(out.vocab) = <<2, 2, 2, 2>>

\* C13 witness: a page of items of equal length, one above and one below the
\* average, both brought to it.
C13_Witness ==
  /\ dPhase = "once"
  /\ dFirst.modified
  /\ Len(dVocab) >= 2
  /\ \A i \in DOMAIN dVocab : dVocab[i].hasStates /\ Len(dVocab[i].states) = MaxStates
  /\ \E i, j \in DOMAIN dVocab :
       /\ PageStartOf(i, dPageSize) = PageStartOf(j, dPageSize)
       /\ NumFilled(dVocab[i].states) > ExpectedAvg(dVocab, i, dPageSize)
       /\ NumFilled(dVocab[j].states) < ExpectedAvg(dVocab, j, dPageSize)

\* C14: for every item whose filled count exceeds avgFilled of its page,
\* applyDecay sets to none exactly the (filledCount - avgFilled) non-none
\* states of highest index and leaves every other state of the item as it was.
C14_DecayFromHighest ==
  dPhase # "input" =>
    \A i \in DOMAIN dVocab :
      LET before == dVocab[i].states
          k == NumFilled(before) - ExpectedAvg(dVocab, i, dPageSize)
      IN k > 0 => /\ dFirst.vocab[i].states = HighestCleared(before, k)
                  /\ Cardinality(ChangedAt(before, dFirst.vocab[i].states)) = k

\* C14 witness: an item above the average that lost its last state and kept
\* an earlier one.
C14_Witness ==
  /\ dPhase = "once"
  /\ \E i \in DOMAIN dVocab :
       /\ Len(dVocab[i].states) = 2
       /\ dVocab[i].states[1] # "none"
       /\ dVocab[i].states[2] # "none"
       /\ dFirst.vocab[i].states = <<dVocab[i].states[1], "none">>

\* C15: for every item that has states (8 in the program) and a filled count
\* below avgFilled of its page, applyDecay sets to boost exactly the
\* (avgFilled - filledCount) none states of lowest index and leaves every
\* other state of the item as it was.
C15_BoostLowest ==
  dPhase # "input" =>
    \A i \in DOMAIN dVocab :
      LET before == dVocab[i].states
          k == ExpectedAvg(dVocab, i, dPageSize) - NumFilled(before)
      IN (Len(before) >= 1 /\ k > 0) =>
           /\ dFirst.vocab[i].states = LowestBoosted(before, k)
           /\ Cardinality(ChangedAt(before, dFirst.vocab[i].states)) = k

\* C16: modified is true if and only if some state of some item of the
\* output differs from the corresponding state of the input.
C16_ModifiedIffChanged ==
  dPhase # "input" =>
    (dFirst.modified <=>
       \E i \in DOMAIN dVocab : ChangedAt(dVocab[i].states, dFirst.vocab[i].states) # {})

\* C16 witness: a call that reports modified and whose only changes are
\* states set to none on one item.
C16_Witness ==
  /\ dPhase = "once"
  /\ dFirst.modified
  /\ Cardinality({i \in DOMAIN dVocab :
                    ChangedAt(dVocab[i].states, dFirst.vocab[i].states) # {}}) = 1

\* C17: applyDecay never mutates its input.  After the call the states array
\* of every item of the caller's list holds what it held before the call, and
\* a second call leaves the arrays of the first call's result as they were.
C17_InputNotMutated ==
  /\ dPhase # "input" =>
       \A i \in DOMAIN dVocab : dRefs[i] # NoRef => dHeap[dRefs[i]] = dVocab[i].states
  /\ dPhase = "twice" =>
       \A i \in DOMAIN dVocab :
         dHeap[Len(InputHeap(dVocab)) + i] = dFirst.vocab[i].states

\* C17 witness: a call that changed states of an item in its result while the
\* caller's array of that item still holds the states passed in.
C17_Witness ==
  /\ dPhase = "once"
  /\ \E i \in DOMAIN dVocab :
       /\ dRefs[i] # NoRef
       /\ dFirst.vocab[i].states # dVocab[i].states
       /\ dHeap[Len(InputHeap(dVocab)) + i] = dFirst.vocab[i].states
       /\ dHeap[dRefs[i]] = dVocab[i].states

\* The filled states of the items from..to of a list.
PageFilled(list, from, to) ==
  LET RECURSIVE Sum(_)
      Sum(j) == IF j > to THEN 0 ELSE NumFilled(list[j].states) + Sum(j + 1)
  IN Sum(from)

AllAtAverage(list, pageSize) ==
  \A i \in DOMAIN list : NumFilled(list[i].states) = ExpectedAvg(list, i, pageSize)

MsPerDay == 86400000
MsPerWeek == 604800000
defaultPageSize == 15
maxNoteLength == 500

\* A field that a JSON object does not carry (undefined).
Undefined == -1

\* new Date().toISOString().split('T')[0], as a day number
Today(t) == t \div MsPerDay

\* Math.floor(now.getTime() / (7 * 24 * 60 * 60 * 1000))
WeekNumber(t) == t \div MsPerWeek

\* The clock moves on by a millisecond, a day or a week.
TickSteps == {1, MsPerDay, MsPerWeek}

\* f with key k bound to v / without key k (files of a directory by name).
Put(f, k, v) == [x \in DOMAIN f \cup {k} |-> IF x = k THEN v ELSE f[x]]
Remove(f, k) == [x \in DOMAIN f \ {k} |-> f[x]]

UpperLetters == <<"A", "B", "C", "D", "E", "F", "G", "H", "I", "J", "K", "L", "M",
                  "N", "O", "P", "Q", "R", "S", "T", "U", "V", "W", "X", "Y", "Z">>
LowerLetters == <<"a", "b", "c", "d", "e", "f", "g", "h", "i", "j", "k", "l", "m",
                  "n", "o", "p", "q", "r", "s", "t", "u", "v", "w", "x", "y", "z">>
Digits == <<"0", "1", "2", "3", "4", "5", "6", "7", "8", "9">>
Range(q) == {q[i] : i \in DOMAIN q}
IsAlnum(ch) == ch \in Range(UpperLetters) \cup Range(LowerLetters) \cup Range(Digits)
ToLowerCase(ch) ==
  IF ch \in Range(UpperLetters)
    THEN LowerLetters[CHOOSE i \in DOMAIN UpperLetters : UpperLetters[i] = ch]
    ELSE ch

\* name.replace(/[^a-zA-Z0-9]/g, '-').toLowerCase()
SanitizedName(name) ==
  [i \in DOMAIN name |-> ToLowerCase(IF IsAlnum(name[i]) THEN name[i] ELSE "-")]

\* `${sanitizedName}-${Date.now()}.json`: the base and the digits after the last '-'.
CourseFilename(name, t) == [base |-> SanitizedName(name), stamp |-> t]

\* pageSize || 15
PageSizeOr(pageSize) ==
  IF pageSize = Undefined \/ pageSize = 0 THEN defaultPageSize ELSE pageSize

Item(id, states) ==
  [id |-> id, hasStates |-> TRUE, states |-> states, lastUpdated |-> Undefined]

\* Request inputs.
CourseNames == {<<"A">>}
ContentInputs == {<<Item(1, <<"tick", "tick">>), Item(2, <<"none", "none">>)>>,
                  <<Item(1, <<"tick", "none">>)>>}
StatesInputs == {<<"tick", "tick">>, <<"none", "none">>}
ItemIds == {1, 2}
PageSizeChoices == {Undefined}
NoteInputs == {<<"m">>}
UpdateSizes == {1}
AutoNote == <<"A", "u", "t", "o", "-", "w", "e", "e", "k", "l", "y", " ",
              "b", "a", "c", "k", "u", "p">>

\* A course of the system-wide default set, copied at first access.
DefaultFilename == [base |-> <<"d">>, stamp |-> Undefined]
DefaultCourse ==
  [filename |-> DefaultFilename, name |-> <<"D">>, pageSize |-> Undefined, order |-> 1]

\* A well-formed snapshot id under which nothing is stored.
MissingSnapshotId == <<Undefined, Undefined>>

\* state.lastDecay === today, never true (the gate left out).
AlreadyRunTodayNever(state, today) == FALSE

\* A check that takes every week for a new one.
SnapshotTakenThisWeekNever(state, weekNumber) == FALSE

\* if (state.lastAutoSnapshotWeek === weekNumber) return { created: false }
SnapshotTakenThisWeek(state, weekNumber) == state.lastAutoSnapshotWeek = weekNumber

\* if (state.lastDecay === today) return res.json({run: false, ...})
AlreadyRunToday(state, today) == state.lastDecay = today

\* The per-course loop of the decay route: load, applyDecay, save if modified;
\* a course whose file cannot be loaded is skipped (catch).
RECURSIVE DecayCourses(_, _, _, _)
DecayCourses(index, i, files, totalModified) ==
  IF i > Len(index) THEN [files |-> files, totalModified |-> totalModified]
  ELSE LET course == index[i] IN
    IF course.filename \notin DOMAIN files
      THEN DecayCourses(index, i + 1, files, totalModified)
      ELSE LET d == applyDecay(files[course.filename], PageSizeOr(course.pageSize))
           IN IF d.modified
                THEN DecayCourses(index, i + 1, Put(files, course.filename, d.vocab),
                                  totalModified + 1)
                ELSE DecayCourses(index, i + 1, files, totalModified)

\* The per-course loop when file operations can be rejected: for the courses
\* at the positions in `failing` loadVocabFile or saveVocabFile throws, the
\* catch inside the loop logs the error and the loop goes on.
RECURSIVE DecayCoursesSkipping(_, _, _, _, _)
DecayCoursesSkipping(index, i, files, totalModified, failing) ==
  IF i > Len(index) THEN [files |-> files, totalModified |-> totalModified]
  ELSE LET course == index[i] IN
    IF course.filename \notin DOMAIN files \/ i \in failing
      THEN DecayCoursesSkipping(index, i + 1, files, totalModified, failing)
      ELSE LET d == applyDecay(files[course.filename], PageSizeOr(course.pageSize))
           IN IF d.modified
                THEN DecayCoursesSkipping(index, i + 1,
                                          Put(files, course.filename, d.vocab),
                                          totalModified + 1, failing)
                ELSE DecayCoursesSkipping(index, i + 1, files, totalModified, failing)

\* A createSnapshot that stores the note as it was passed.
SanitizeNoteWhole(note) == note

\* String(note || '').slice(0, CONFIG.maxNoteLength)
SanitizeNote(note) ==
  SubSeq(note, 1, IF Len(note) < maxNoteLength THEN Len(note) ELSE maxNoteLength)

\* `${date}-${timestamp}`
SnapshotId(t) == <<Today(t), t>>

\* A snapshot that loads no vocab file.
LoadVocabFilesNone(index, i, files, acc) == acc

\* vocabFiles[course.filename] = await loadVocabFile(...) for every course of the
\* index; a file that cannot be loaded is left out (catch).
RECURSIVE LoadVocabFiles(_, _, _, _)
LoadVocabFiles(index, i, files, acc) ==
  IF i > Len(index) THEN acc
  ELSE LET fn == index[i].filename IN
    IF fn \in DOMAIN files
      THEN LoadVocabFiles(index, i + 1, files, Put(acc, fn, files[fn]))
      ELSE LoadVocabFiles(index, i + 1, files, acc)

\* The snapshot object createSnapshot writes.
MakeSnapshot(index, files, t, note) ==
  [id |-> SnapshotId(t), date |-> Today(t), createdAt |-> t,
   note |-> SanitizeNote(note), courses |-> index,
   vocabFiles |-> LoadVocabFiles(index, 1, files, <<>>)]

\* return { id, date, createdAt, note }
Metadata(snap) ==
  [id |-> snap.id, date |-> snap.date, createdAt |-> snap.createdAt, note |-> snap.note]

\* Restore that writes the index but no vocab file.
RestoredFilesNone(files, snapFiles) == files

\* Object.entries(snapshot.vocabFiles).map(([filename, data]) => saveVocabFile(...))
RestoredFiles(files, snapFiles) ==
  [f \in DOMAIN files \cup DOMAIN snapFiles |->
     IF f \in DOMAIN snapFiles THEN snapFiles[f] ELSE files[f]]

\* vocab.findIndex(item => String(item.id) === itemId); 0 when there is none
FindItem(list, itemId) ==
  IF \E i \in DOMAIN list : list[i].id = itemId
    THEN CHOOSE i \in DOMAIN list : list[i].id = itemId /\ \A j \in 1..(i - 1) : list[j].id # itemId
    ELSE 0

\* courses.findIndex(c => c.filename === `${courseId}.json`); 0 when there is none
FindCourse(index, filename) ==
  IF \E i \in DOMAIN index : index[i].filename = filename
    THEN CHOOSE i \in DOMAIN index :
           index[i].filename = filename /\ \A j \in 1..(i - 1) : index[j].filename # filename
    ELSE 0

\* courses.splice(courseIndex, 1)
Splice(q, i) == SubSeq(q, 1, i - 1) \o SubSeq(q, i + 1, Len(q))

RepoIdle ==
  /\ now = 0
  /\ tickCount = 0
  /\ opCount = 0
  /\ courses = <<>>
  /\ vocab = <<>>
  /\ serverState = [lastDecay |-> Undefined, lastAutoSnapshotWeek |-> Undefined]
  /\ snapshots = <<>>
  /\ lastOp = "none"
  /\ response = [status |-> 0]
  /\ atCreate = <<>>
  /\ decayDays = {}
  /\ changedByOp = FALSE

\* After first access: an empty index, or the default course with or without
\* its vocab file (the default index may name a file that does not exist).
RepoInit ==
  /\ now = 0
  /\ tickCount = 0
  /\ opCount = 0
  /\ \/ courses = <<>> /\ vocab = <<>>
     \/ courses = <<DefaultCourse>> /\ vocab = <<>>
     \/ /\ courses = <<DefaultCourse>>
        /\ \E content \in ContentInputs : vocab = Put(<<>>, DefaultFilename, content)
  /\ serverState = [lastDecay |-> Undefined, lastAutoSnapshotWeek |-> Undefined]
  /\ snapshots = <<>>
  /\ lastOp = "none"
  /\ response = [status |-> 0]
  /\ atCreate = <<>>
  /\ decayDays = {}
  /\ changedByOp = FALSE

\* The contents index and vocab files go through while a request is handled:
\* what they are when it is done, and what they are between the writes of a
\* request that writes more than one file (POST and DELETE of a course write
\* the vocab file first and the index second, a decay run writes the vocab
\* files one course after the other).
Instants(op, index, files, indexAfter, filesAfter) ==
  {[courses |-> indexAfter, vocab |-> filesAfter]}
    \cup (IF op \in {"createCourse", "deleteCourse"}
            THEN {[courses |-> index, vocab |-> filesAfter]} ELSE {})
    \cup (IF op = "decay" /\ filesAfter # files
            THEN {[courses |-> index,
                   vocab |-> DecayCourses(SubSeq(index, 1, k), 1, files, 0).files] :
                    k \in 0..Len(index)}
            ELSE {})

\* Every request: counted, and what it changed of index and vocab files noted.
Handled(op) ==
  /\ opCount' = opCount + 1
  /\ lastOp' = op
  /\ changedByOp' = (courses' # courses \/ vocab' # vocab)
  /\ sSeen' = IF sPc \in {"loadCourses", "loadFiles"}
                THEN sSeen \cup Instants(op, courses, vocab, courses', vocab')
                ELSE sSeen
  /\ UNCHANGED <<now, tickCount>>
  /\ UNCHANGED <<sPc, sId, sCourses, sFiles, sPending>>
  /\ UNCHANGED otherThanRepoAndSnap

\* Time passes between requests.
Tick(step) ==
  /\ tickCount < MaxTicks
  /\ now' = now + step
  /\ tickCount' = tickCount + 1
  /\ lastOp' = "tick"
  /\ changedByOp' = FALSE
  /\ UNCHANGED <<opCount, courses, vocab, serverState, snapshots, response,
                 atCreate, decayDays>>
  /\ UNCHANGED otherThanRepo

\* POST /api/courses: store the vocab file, then append to the index.
CreateCourse(name, pageSize, content) ==
  /\ opCount < MaxOps
  /\ LET filename == CourseFilename(name, now)
         newCourse == [filename |-> filename, name |-> name,
                       pageSize |-> PageSizeOr(pageSize), order |-> Len(courses) + 1]
     IN /\ vocab' = Put(vocab, filename, content)
        /\ courses' = Append(courses, newCourse)
        /\ response' = [status |-> 200, course |-> newCourse]
  /\ UNCHANGED <<serverState, snapshots, atCreate, decayDays>>
  /\ Handled("createCourse")

\* PUT /api/courses/:id: merge the update into the index entry, keeping filename.
UpdateCourse(filename, pageSize) ==
  /\ opCount < MaxOps
  /\ LET i == FindCourse(courses, filename) IN
       IF i = 0
         THEN /\ response' = [status |-> 404]
              /\ UNCHANGED courses
         ELSE /\ courses' = [courses EXCEPT ![i].pageSize = pageSize]
              /\ response' = [status |-> 200, course |-> courses'[i]]
  /\ UNCHANGED <<vocab, serverState, snapshots, atCreate, decayDays>>
  /\ Handled("updateCourse")

\* DELETE /api/courses/:id: delete the vocab file, then the index entry.
DeleteCourse(filename) ==
  /\ opCount < MaxOps
  /\ LET i == FindCourse(courses, filename) IN
       IF i = 0
         THEN /\ response' = [status |-> 404]
              /\ UNCHANGED <<courses, vocab>>
         ELSE /\ vocab' = Remove(vocab, filename)
              /\ courses' = Splice(courses, i)
              /\ response' = [status |-> 200]
  /\ UNCHANGED <<serverState, snapshots, atCreate, decayDays>>
  /\ Handled("deleteCourse")

\* PATCH /api/vocab-files/:courseId/:id: replace one item's states.
PatchItem(filename, itemId, states) ==
  /\ opCount < MaxOps
  /\ IF filename \notin DOMAIN vocab
       THEN /\ response' = [status |-> 404]
            /\ UNCHANGED vocab
       ELSE LET list == vocab[filename]
                i == FindItem(list, itemId)
            IN IF i = 0
                 THEN /\ response' = [status |-> 404]
                      /\ UNCHANGED vocab
                 ELSE LET updatedItem == [list[i] EXCEPT !.hasStates = TRUE,
                                                         !.states = states,
                                                         !.lastUpdated = now]
                      IN /\ vocab' = Put(vocab, filename, [list EXCEPT ![i] = updatedItem])
                         /\ response' = [status |-> 200, item |-> updatedItem]
  /\ UNCHANGED <<courses, serverState, snapshots, atCreate, decayDays>>
  /\ Handled("patchItem")

\* POST /api/maintenance/decay
DecayCheck ==
  /\ opCount < MaxOps
  /\ LET today == Today(now)
         state == serverState
     IN IF AlreadyRunToday(state, today)
          THEN /\ response' = [status |-> 200, run |-> FALSE]
               /\ UNCHANGED <<vocab, serverState>>
          ELSE LET d == DecayCourses(courses, 1, vocab, 0)
               IN /\ vocab' = d.files
                  /\ serverState' = [state EXCEPT !.lastDecay = today]
                  /\ response' = [status |-> 200, run |-> TRUE,
                                message |-> d.totalModified]
  /\ decayDays' = decayDays \cup {Today(now)}
  /\ UNCHANGED <<courses, snapshots, atCreate>>
  /\ Handled("decay")

\* POST /api/snapshots: UserFileService.createSnapshot(email, note)
CreateSnapshot(note) ==
  /\ opCount < MaxOps
  /\ LET snap == MakeSnapshot(courses, vocab, now, note)
     IN /\ snapshots' = Put(snapshots, snap.id, snap)
        /\ atCreate' = Put(atCreate, snap.id, [courses |-> courses, vocab |-> vocab,
                                             note |-> note])
        /\ response' = [status |-> 200, snapshot |-> Metadata(snap)]
  /\ UNCHANGED <<courses, vocab, serverState, decayDays>>
  /\ Handled("createSnapshot")

\* POST /api/snapshots/:id/restore: UserFileService.restoreSnapshot(email, id)
RestoreSnapshot(id) ==
  /\ opCount < MaxOps
  /\ IF id \notin DOMAIN snapshots
       THEN /\ response' = [status |-> 404]
            /\ UNCHANGED <<courses, vocab>>
       ELSE /\ courses' = snapshots[id].courses
            /\ vocab' = RestoredFiles(vocab, snapshots[id].vocabFiles)
            /\ response' = [status |-> 200, restored |-> TRUE, snapshotId |-> id]
  /\ UNCHANGED <<serverState, snapshots, atCreate, decayDays>>
  /\ Handled("restoreSnapshot")

\* GET /api/courses: checkAutoSnapshot, then the course index.
ListCourses ==
  /\ opCount < MaxOps
  /\ LET weekNumber == WeekNumber(now) IN
       IF SnapshotTakenThisWeek(serverState, weekNumber)
         THEN UNCHANGED <<snapshots, atCreate, serverState>>
         ELSE LET snap == MakeSnapshot(courses, vocab, now, AutoNote)
              IN /\ snapshots' = Put(snapshots, snap.id, snap)
                 /\ atCreate' = Put(atCreate, snap.id, [courses |-> courses, vocab |-> vocab,
                                                    note |-> AutoNote])
                 /\ serverState' = [serverState EXCEPT !.lastAutoSnapshotWeek = weekNumber]
  /\ response' = [status |-> 200, courses |-> courses]
  /\ UNCHANGED <<courses, vocab, decayDays>>
  /\ Handled("listCourses")

\* The filenames a request can name: those in use, and the default course's.
KnownFilenames == DOMAIN vocab \cup {courses[i].filename : i \in DOMAIN courses}
                    \cup {DefaultFilename}

RepoNext ==
  \/ \E step \in TickSteps : Tick(step)
  \/ \E name \in CourseNames, pageSize \in PageSizeChoices, content \in ContentInputs :
       CreateCourse(name, pageSize, content)
  \/ \E filename \in KnownFilenames, pageSize \in UpdateSizes : UpdateCourse(filename, pageSize)
  \/ \E filename \in KnownFilenames : DeleteCourse(filename)
  \/ \E filename \in KnownFilenames, itemId \in ItemIds, states \in StatesInputs :
       PatchItem(filename, itemId, states)
  \/ DecayCheck
  \/ \E note \in NoteInputs : CreateSnapshot(note)
  \/ \E id \in DOMAIN snapshots \cup {MissingSnapshotId} : RestoreSnapshot(id)
  \/ ListCourses

\* C3: snapshot round trip.  When restoreSnapshot succeeds for an id, the
\* course index equals the index at the time the snapshot stored under that
\* id was created and every course of that index has the vocab file content
\* it had then (a course without a file then has none now), whatever course,
\* item, decay and other requests came in between.
C3_SnapshotRoundTrip ==
  (lastOp = "restoreSnapshot" /\ response.status = 200) =>
    LET then == atCreate[response.snapshotId] IN
      /\ courses = then.courses
      /\ \A i \in DOMAIN then.courses :
           LET fn == then.courses[i].filename IN
             IF fn \in DOMAIN then.vocab
               THEN fn \in DOMAIN vocab /\ vocab[fn] = then.vocab[fn]
               ELSE fn \notin DOMAIN vocab

\* C3 witness: a successful restore that undid changes made since the
\* snapshot was taken, for a snapshot that holds a course with its vocab file.
C3_Witness ==
  /\ lastOp = "restoreSnapshot"
  /\ response.status = 200
  /\ changedByOp
  /\ DOMAIN snapshots[response.snapshotId].vocabFiles # {}

\* C4: a decay check made when a decay check for the same date has already
\* returned answers run: false and changes no vocab file and no maintenance
\* state; the algorithm is applied by the first check of a date only.
C4_DecayOncePerDay ==
  [][(lastOp' = "decay" /\ opCount' = opCount + 1 /\ Today(now) \in decayDays)
       => (response'.run = FALSE /\ vocab' = vocab /\ serverState' = serverState)]_vars

\* C4 witness: a second decay check of a date answered run: false although an
\* item update since the first check left a page that decay would change.
C4_Witness ==
  /\ lastOp = "decay"
  /\ response.run = FALSE
  /\ \E i \in DOMAIN courses :
       /\ courses[i].filename \in DOMAIN vocab
       /\ applyDecay(vocab[courses[i].filename], PageSizeOr(courses[i].pageSize)).modified


\* C23: a snapshot is immutable once created.  The content stored under an
\* id (id, date, createdAt, note, courses, vocabFiles) is changed by no later
\* request: no later createSnapshot, also one made within the same
\* millisecond, no restore, item update, course change or decay run.
C23_SnapshotImmutable ==
  [][\A id \in DOMAIN snapshots :
       id \in DOMAIN snapshots' => snapshots'[id] = snapshots[id]]_vars

\* POST /api/snapshots has just been answered.
SnapshotCreated == lastOp' = "createSnapshot" /\ opCount' = opCount + 1

\* C24 as stated: every snapshot written by createSnapshot contains the
\* current course index and, for every course of that index, a vocabFiles
\* entry holding the course's full vocab content; createSnapshot returns the
\* metadata (id, date, createdAt, note) only.
C24_EntryForEveryCourse ==
  [][SnapshotCreated =>
       LET snap == snapshots'[SnapshotId(now)] IN
         /\ snap.courses = courses
         /\ \A i \in DOMAIN courses :
              LET fn == courses[i].filename IN
                fn \in DOMAIN snap.vocabFiles /\ fn \in DOMAIN vocab
                  /\ snap.vocabFiles[fn] = vocab[fn]
         /\ DOMAIN response'.snapshot = {"id", "date", "createdAt", "note"}]_vars

\* C24, amended: every snapshot written by createSnapshot contains the
\* current course index and, for every course of that index whose vocab file
\* exists, a vocabFiles entry holding the file's full content; a course whose
\* file does not exist has no entry, and there are no other entries.
\* createSnapshot returns the metadata (id, date, createdAt, note) only.
C24_EntryForEveryFile ==
  [][SnapshotCreated =>
       LET snap == snapshots'[SnapshotId(now)] IN
         /\ snap.courses = courses
         /\ \A i \in DOMAIN courses :
              LET fn == courses[i].filename IN
                IF fn \in DOMAIN vocab
                  THEN fn \in DOMAIN snap.vocabFiles /\ snap.vocabFiles[fn] = vocab[fn]
                  ELSE fn \notin DOMAIN snap.vocabFiles
         /\ DOMAIN snap.vocabFiles \subseteq {courses[i].filename : i \in DOMAIN courses}
         /\ DOMAIN response'.snapshot = {"id", "date", "createdAt", "note"}
         /\ response'.snapshot = Metadata(snap)]_vars

\* C24 witness: a snapshot was written for an index of a course with a vocab
\* file and a course without one; it holds the content of the first only.
C24_Witness ==
  /\ lastOp = "createSnapshot"
  /\ LET snap == snapshots[response.snapshot.id] IN
       /\ snap.courses = courses
       /\ \E i \in DOMAIN courses :
            /\ courses[i].filename \in DOMAIN snap.vocabFiles
            /\ snap.vocabFiles[courses[i].filename] = vocab[courses[i].filename]
       /\ \E i \in DOMAIN courses : courses[i].filename \notin DOMAIN snap.vocabFiles

\* ------------------------------------------------------------------------
\* The decay route when a course's file operation is rejected
\* ------------------------------------------------------------------------

\* POST /api/maintenance/decay; the file operations of the courses at the
\* positions in `failing` are rejected (I/O error, disk full on save).
DecayCheckSkipping(failing) ==
  /\ opCount < MaxOps
  /\ LET today == Today(now)
         state == serverState
     IN IF AlreadyRunToday(state, today)
          THEN /\ response' = [status |-> 200, run |-> FALSE]
               /\ UNCHANGED <<vocab, serverState>>
          ELSE LET d == DecayCoursesSkipping(courses, 1, vocab, 0, failing)
               IN /\ vocab' = d.files
                  /\ serverState' = [state EXCEPT !.lastDecay = today]
                  /\ response' = [status |-> 200, run |-> TRUE,
                                message |-> d.totalModified]
  /\ decayDays' = decayDays \cup {Today(now)}
  /\ UNCHANGED <<courses, snapshots, atCreate>>
  /\ Handled("decay")

DecayRunNext ==
  \/ \E step \in TickSteps : Tick(step)
  \/ \E name \in CourseNames, pageSize \in PageSizeChoices, content \in ContentInputs :
       CreateCourse(name, pageSize, content)
  \/ \E filename \in KnownFilenames, itemId \in ItemIds, states \in StatesInputs :
       PatchItem(filename, itemId, states)
  \/ \E failing \in SUBSET DOMAIN courses : DecayCheckSkipping(failing)

\* C21: when the decay check runs for date d, it applies the decay algorithm
\* to every course of the index and persists every course whose content was
\* modified before it stores lastDecay = d; so whenever a run stores
\* lastDecay = d, every course file of the index that decay modifies has been
\* rewritten with the decayed content, and the reported number of modified
\* courses is the number of course files rewritten.
C21_DecayAppliedToAll ==
  [][(lastOp' = "decay" /\ opCount' = opCount + 1 /\ response'.run)
       => /\ serverState'.lastDecay = Today(now)
          /\ \A i \in DOMAIN courses :
               LET fn == courses[i].filename IN
                 fn \in DOMAIN vocab =>
                   LET d == applyDecay(vocab[fn], PageSizeOr(courses[i].pageSize))
                   IN d.modified => vocab'[fn] = d.vocab
          /\ response'.message = Cardinality({fn \in DOMAIN vocab : vocab'[fn] # vocab[fn]})]_vars


\* ------------------------------------------------------------------------
\* The states arrays stored in the vocab files
\* ------------------------------------------------------------------------

\* A states array as the vocab component keeps it: `boxes` entries.
BoxStates(k) == [p \in 1..boxes |-> IF p <= k THEN "tick" ELSE "none"]

\* An item of a request body that carries no states.
BareItem(id) == [id |-> id, hasStates |-> FALSE, states |-> <<>>, lastUpdated |-> Undefined]

\* Request bodies: items with full states arrays, an item without states, and
\* a states array of another length (the routes accept any array).
BoxContentInputs == {<<Item(1, BoxStates(boxes)), Item(2, BoxStates(0))>>}
BoxAppendInputs == {<<Item(1, BoxStates(1))>>, <<BareItem(1)>>}
BoxStatesInputs == {BoxStates(boxes), BoxStates(0), <<"tick">>}

\* vocab.reduce((max, item) => Math.max(max, parseInt(item.id) || 0), 0)
MaxId(list) ==
  IF list = <<>> THEN 0
  ELSE CHOOSE x \in {list[i].id : i \in DOMAIN list} :
         \A i \in DOMAIN list : list[i].id <= x

\* content.map((item, index) => ({...item, id, states: item.states || [], lastUpdated}))
NewItems(content, maxId, t) ==
  [index \in DOMAIN content |->
     [content[index] EXCEPT !.id = maxId + index,
                            !.hasStates = TRUE,
                            !.states = IF content[index].hasStates
                                         THEN content[index].states ELSE <<>>,
                            !.lastUpdated = t]]

\* POST /api/courses/:id/append
AppendItems(filename, content) ==
  /\ opCount < MaxOps
  /\ IF FindCourse(courses, filename) = 0
       THEN /\ response' = [status |-> 404]
            /\ UNCHANGED vocab
       ELSE IF filename \notin DOMAIN vocab
         THEN /\ response' = [status |-> 500]
              /\ UNCHANGED vocab
         ELSE LET list == vocab[filename]
                  newItems == NewItems(content, MaxId(list), now)
              IN /\ vocab' = Put(vocab, filename, list \o newItems)
                 /\ response' = [status |-> 200, added |-> Len(newItems)]
  /\ UNCHANGED <<courses, serverState, snapshots, atCreate, decayDays>>
  /\ Handled("append")

\* After first access: the default course with a file of full states arrays.
StatesInit ==
  /\ now = 0
  /\ tickCount = 0
  /\ opCount = 0
  /\ courses = <<DefaultCourse>>
  /\ \E content \in BoxContentInputs : vocab = Put(<<>>, DefaultFilename, content)
  /\ serverState = [lastDecay |-> Undefined, lastAutoSnapshotWeek |-> Undefined]
  /\ snapshots = <<>>
  /\ lastOp = "none"
  /\ response = [status |-> 0]
  /\ atCreate = <<>>
  /\ decayDays = {}
  /\ changedByOp = FALSE

StatesNext ==
  \/ \E step \in TickSteps : Tick(step)
  \/ \E name \in CourseNames, pageSize \in PageSizeChoices, content \in BoxContentInputs :
       CreateCourse(name, pageSize, content)
  \/ \E filename \in KnownFilenames, content \in BoxAppendInputs :
       AppendItems(filename, content)
  \/ \E filename \in KnownFilenames, itemId \in ItemIds, states \in BoxStatesInputs :
       PatchItem(filename, itemId, states)
  \/ DecayCheck
  \/ \E note \in NoteInputs : CreateSnapshot(note)
  \/ \E id \in DOMAIN snapshots : RestoreSnapshot(id)

\* C22: after any sequence of course creation, append, item-state update,
\* decay run and snapshot restore, every item stored in any vocab file has a
\* states array of exactly 8 entries.
C22_StatesLength8 ==
  \A fn \in DOMAIN vocab :
    \A i \in DOMAIN vocab[fn] :
      vocab[fn][i].hasStates /\ Len(vocab[fn][i].states) = boxes


\* ========================================================================
\* The snapshot files: restore, delete and list by id
\* ========================================================================

StoreIdle == corrupt = {}

\* String(n) for n >= 0
RECURSIVE Decimal(_)
Decimal(n) ==
  IF n < 10 THEN <<Digits[n + 1]>>
  ELSE Decimal(n \div 10) \o <<Digits[(n % 10) + 1]>>

\* n in two digits
TwoDigits(n) == <<Digits[(n \div 10) + 1], Digits[(n % 10) + 1]>>

\* now.toISOString().split('T')[0] for the days of the clock's first year:
\* the clock of the model starts at the epoch, day 0 is 1970-01-01.
DaysBeforeMonth == <<0, 31, 59, 90, 120, 151, 181, 212, 243, 273, 304, 334, 365>>
IsoDate(day) ==
  LET month == CHOOSE m \in 1..12 : DaysBeforeMonth[m] <= day /\ day < DaysBeforeMonth[m + 1]
  IN <<"1", "9", "7", "0", "-">> \o TwoDigits(month) \o <<"-">>
       \o TwoDigits(day - DaysBeforeMonth[month] + 1)

\* `${date}-${timestamp}` as text: the id in a file name and in a request.
SnapshotIdText(id) == IsoDate(id[1]) \o <<"-">> \o Decimal(id[2])

\* CONFIG.snapshotIdPattern = /^[0-9]{4}-[0-9]{2}-[0-9]{2}-[0-9]+$/
IsDigit(ch) == ch \in Range(Digits)
MatchesSnapshotIdPattern(text) ==
  /\ Len(text) >= 12
  /\ \A i \in {1, 2, 3, 4, 6, 7, 9, 10} : IsDigit(text[i])
  /\ \A i \in {5, 8, 11} : text[i] = "-"
  /\ \A i \in 12..Len(text) : IsDigit(text[i])

\* A validation that lets every id through.
ValidateSnapshotIdThrowsNever(text) == FALSE

\* validateSnapshotId(id) returns id, or throws AppError(400): does it throw?
ValidateSnapshotIdThrows(text) == text = <<>> \/ ~MatchesSnapshotIdPattern(text)

\* fileExists(`snapshot-${validatedId}.json`): the stored snapshots of that name.
StoredIds(text) == {id \in DOMAIN snapshots : SnapshotIdText(id) = text}

\* An unlink that empties the snapshots directory.
UnlinkedAll(files, id) == <<>>

\* await fs.unlink(filepath)
Unlinked(files, id) == Remove(files, id)

\* Ids a request can carry: those of the snapshots ever created, a well-formed
\* id nothing was ever stored under, and ids not of the form.
FirstDay == <<"1", "9", "7", "0", "-", "0", "1", "-", "0", "1">>
AbsentId == FirstDay \o <<"-", "5">>
MalformedIds ==
  {<<>>, FirstDay, FirstDay \o <<"-">>, <<"x">> \o FirstDay \o <<"-", "0">>,
   FirstDay \o <<"-", "0", "x">>, <<".", ".", "/">> \o FirstDay \o <<"-", "0">>}
RequestIds == {SnapshotIdText(id) : id \in DOMAIN atCreate} \cup {AbsentId} \cup MalformedIds

\* POST /api/snapshots/:id/restore with the id as text
RestoreById(text) ==
  /\ opCount < MaxOps
  /\ IF ValidateSnapshotIdThrows(text)
       THEN /\ response' = [status |-> 400, requested |-> text]
            /\ UNCHANGED <<courses, vocab>>
       ELSE IF StoredIds(text) = {}
         THEN /\ response' = [status |-> 404, requested |-> text]
              /\ UNCHANGED <<courses, vocab>>
         ELSE LET id == CHOOSE id \in StoredIds(text) : TRUE IN
           IF id \in corrupt
             THEN /\ response' = [status |-> 500, requested |-> text]
                  /\ UNCHANGED <<courses, vocab>>
             ELSE /\ courses' = snapshots[id].courses
                  /\ vocab' = RestoredFiles(vocab, snapshots[id].vocabFiles)
                  /\ response' = [status |-> 200, requested |-> text, restored |-> TRUE,
                                  snapshotId |-> id]
  /\ UNCHANGED <<serverState, snapshots, atCreate, decayDays>>
  /\ Handled("restoreSnapshot")

\* DELETE /api/snapshots/:id
DeleteById(text) ==
  /\ opCount < MaxOps
  /\ IF ValidateSnapshotIdThrows(text)
       THEN /\ response' = [status |-> 400, requested |-> text]
            /\ UNCHANGED <<snapshots, corrupt>>
       ELSE IF StoredIds(text) = {}
         THEN /\ response' = [status |-> 404, requested |-> text]
              /\ UNCHANGED <<snapshots, corrupt>>
         ELSE LET id == CHOOSE id \in StoredIds(text) : TRUE IN
              /\ snapshots' = Unlinked(snapshots, id)
              /\ corrupt' = corrupt \ {id}
              /\ response' = [status |-> 200, requested |-> text, deleted |-> TRUE,
                              snapshotId |-> id]
  /\ opCount' = opCount + 1
  /\ lastOp' = "deleteSnapshot"
  /\ changedByOp' = FALSE
  /\ UNCHANGED <<now, tickCount, courses, vocab, serverState, atCreate, decayDays>>
  /\ UNCHANGED otherThanRepoAndStore

\* A list in its order.
Unsorted(list) == list

\* snapshots.sort((a, b) => new Date(b.createdAt) - new Date(a.createdAt)):
\* a stable sort, the later createdAt first.
RECURSIVE SortByCreatedAtDesc(_)
SortByCreatedAtDesc(list) ==
  IF list = <<>> THEN <<>>
  ELSE LET sorted == SortByCreatedAtDesc(SubSeq(list, 1, Len(list) - 1))
           last == list[Len(list)]
           ahead == SelectSeq(sorted, LAMBDA x : x.createdAt >= last.createdAt)
           behind == SelectSeq(sorted, LAMBDA x : x.createdAt < last.createdAt)
       IN ahead \o <<last>> \o behind

\* A listing whose reads are outside any try: an unreadable file fails it.
ReadFailureEscapesOnCorrupt(files) == \E i \in DOMAIN files : files[i] \in corrupt

\* Every readFile and JSON.parse of the listing is inside try/catch, which
\* returns null for the file: no failure of a read reaches the caller.
ReadFailureEscapes(files) == FALSE

\* The records of the files that could be read:
\* { id, date, createdAt, note: content.note || '' }, the nulls filtered out.
ReadableRecords(files) ==
  LET readable == SelectSeq(files, LAMBDA id : id \notin corrupt)
  IN [i \in DOMAIN readable |-> Metadata(snapshots[readable[i]])]

\* fs.readdir(snapshotsDir): the snapshot files in any order.
ReaddirOrders ==
  LET n == Cardinality(DOMAIN snapshots)
  IN {files \in [1..n -> DOMAIN snapshots] :
        \A i, j \in 1..n : i # j => files[i] # files[j]}

\* GET /api/snapshots
ListSnapshots(files) ==
  /\ opCount < MaxOps
  /\ response' = IF ReadFailureEscapes(files)
                   THEN [status |-> 500]
                   ELSE [status |-> 200, list |-> SortByCreatedAtDesc(ReadableRecords(files))]
  /\ UNCHANGED <<courses, vocab, serverState, snapshots, atCreate, decayDays>>
  /\ Handled("listSnapshots")

\* A stored snapshot file becomes unreadable (a disk error, a truncated file).
CorruptFile(id) ==
  /\ id \in DOMAIN snapshots \ corrupt
  /\ id[2] < now
  /\ corrupt' = corrupt \cup {id}
  /\ lastOp' = "corrupt"
  /\ changedByOp' = FALSE
  /\ UNCHANGED <<now, tickCount, opCount, courses, vocab, serverState, snapshots,
                 response, atCreate, decayDays>>
  /\ UNCHANGED otherThanRepoAndStore

SnapshotsNext ==
  \/ \E step \in TickSteps : Tick(step)
  \/ \E note \in NoteInputs : CreateSnapshot(note)
  \/ \E text \in RequestIds : RestoreById(text)
  \/ \E text \in RequestIds : DeleteById(text)
  \/ \E files \in ReaddirOrders : ListSnapshots(files)
  \/ \E id \in DOMAIN snapshots : CorruptFile(id)

\* The snapshots created earlier and deleted since.
DeletedIds == DOMAIN atCreate \ DOMAIN snapshots

\* C25: restoreSnapshot with an id not of the form YYYY-MM-DD-<digits> fails
\* with InvalidInput (400), and with a well-formed id under which no snapshot
\* is stored with NotFound (404); in both cases the course index, every vocab
\* file and every snapshot are left unchanged.
C25_RestoreRejects ==
  [][(lastOp' = "restoreSnapshot" /\ opCount' = opCount + 1) =>
       LET text == response'.requested IN
         /\ ~MatchesSnapshotIdPattern(text) =>
              /\ response'.status = 400
              /\ courses' = courses /\ vocab' = vocab /\ snapshots' = snapshots
         /\ (MatchesSnapshotIdPattern(text)
               /\ \A id \in DOMAIN snapshots : SnapshotIdText(id) # text) =>
              /\ response'.status = 404
              /\ courses' = courses /\ vocab' = vocab /\ snapshots' = snapshots]_vars

\* C25 witness: with a snapshot stored, a restore was refused for an id that
\* is a stored id followed by one more character.
C25_Witness ==
  /\ lastOp = "restoreSnapshot"
  /\ response.status = 400
  /\ \E id \in DOMAIN snapshots : response.requested = SnapshotIdText(id) \o <<"x">>

\* C26: deleteSnapshot with the id of a stored snapshot removes exactly that
\* snapshot: all other snapshots, the course index and all vocab files are
\* unchanged, a later listing does not hold it and a later restore of it fails
\* with NotFound; with a well-formed id that is not stored it fails with
\* NotFound and changes nothing.
C26_DeleteExactlyOne ==
  /\ [][(lastOp' = "deleteSnapshot" /\ opCount' = opCount + 1
           /\ MatchesSnapshotIdPattern(response'.requested)) =>
         LET text == response'.requested IN
           /\ courses' = courses /\ vocab' = vocab
           /\ IF \E id \in DOMAIN snapshots : SnapshotIdText(id) = text
                THEN /\ response'.status = 200
                     /\ \A id \in DOMAIN snapshots' : SnapshotIdText(id) # text
                     /\ \A id \in DOMAIN snapshots :
                          SnapshotIdText(id) # text =>
                            id \in DOMAIN snapshots' /\ snapshots'[id] = snapshots[id]
                ELSE response'.status = 404 /\ snapshots' = snapshots]_vars
  /\ [](lastOp = "listSnapshots" =>
          \A i \in DOMAIN response.list : response.list[i].id \notin DeletedIds)
  /\ []((lastOp = "restoreSnapshot"
           /\ \E id \in DeletedIds : SnapshotIdText(id) = response.requested)
          => response.status = 404)

\* C26 witness: one of two stored snapshots was deleted and the other one
\* stays stored.
C26_Witness ==
  /\ lastOp = "deleteSnapshot"
  /\ response.status = 200
  /\ response.snapshotId \in DeletedIds
  /\ snapshots # <<>>

\* C27: listSnapshots returns exactly one record per readable stored snapshot,
\* each holding id, date, createdAt and note only, ordered by createdAt
\* descending.
C27_ListSortedMetadata ==
  lastOp = "listSnapshots" =>
    LET list == response.list IN
      /\ Len(list) = Cardinality(DOMAIN snapshots \ corrupt)
      /\ {list[i].id : i \in DOMAIN list} = DOMAIN snapshots \ corrupt
      /\ \A i \in DOMAIN list :
           /\ DOMAIN list[i] = {"id", "date", "createdAt", "note"}
           /\ list[i].date = snapshots[list[i].id].date
           /\ list[i].createdAt = snapshots[list[i].id].createdAt
           /\ list[i].note = snapshots[list[i].id].note
      /\ \A i, j \in DOMAIN list : i < j => list[i].createdAt > list[j].createdAt

\* C27 witness: a listing of two or more snapshots, all readable.
C27_Witness ==
  /\ lastOp = "listSnapshots"
  /\ response.status = 200
  /\ Len(response.list) >= 2
  /\ corrupt = {}

\* C28: if some snapshot files are unreadable or corrupt, listSnapshots still
\* succeeds and returns the metadata of every readable snapshot.
C28_CorruptSkipped ==
  (lastOp = "listSnapshots" /\ corrupt # {}) =>
    /\ response.status = 200
    /\ \A id \in DOMAIN snapshots \ corrupt :
         \E i \in DOMAIN response.list : response.list[i] = Metadata(snapshots[id])

\* C28 witness: a listing made with one unreadable file and one readable
\* snapshot returned one record.
C28_Witness ==
  /\ lastOp = "listSnapshots"
  /\ corrupt # {}
  /\ DOMAIN snapshots \ corrupt # {}
  /\ response.status = 200
  /\ Len(response.list) = Cardinality(DOMAIN snapshots \ corrupt)


\* ========================================================================
\* createSnapshot, step by step, among the other requests of the user
\* ========================================================================

SnapIdle ==
  /\ sPc = "idle"
  /\ sId = Undefined
  /\ sCourses = <<>>
  /\ sFiles = <<>>
  /\ sPending = {}
  /\ sSeen = {}

\* createSnapshot is called: the id is taken from the clock, loadCourses is
\* awaited.
SnapStart ==
  /\ sPc = "idle"
  /\ sPc' = "loadCourses"
  /\ sId' = SnapshotId(now)
  /\ sSeen' = {[courses |-> courses, vocab |-> vocab]}
  /\ UNCHANGED <<sCourses, sFiles, sPending>>
  /\ UNCHANGED <<repoVars, otherThanRepoAndSnap>>

\* loadCourses resolved; courses.map starts one loadVocabFile per course.
SnapLoadCourses ==
  /\ sPc = "loadCourses"
  /\ sCourses' = courses
  /\ sPending' = DOMAIN courses
  /\ sPc' = "loadFiles"
  /\ UNCHANGED <<sId, sFiles, sSeen>>
  /\ UNCHANGED <<repoVars, otherThanRepoAndSnap>>

\* One loadVocabFile resolved: vocabFiles[course.filename] is set, or the
\* file could not be read and is left out (catch).
SnapLoadFile(i) ==
  /\ sPc = "loadFiles"
  /\ i \in sPending
  /\ LET fn == sCourses[i].filename IN
       sFiles' = IF fn \in DOMAIN vocab THEN Put(sFiles, fn, vocab[fn]) ELSE sFiles
  /\ sPending' = sPending \ {i}
  /\ UNCHANGED <<sPc, sId, sCourses, sSeen>>
  /\ UNCHANGED <<repoVars, otherThanRepoAndSnap>>

\* Promise.all resolved: the snapshot object is written.
SnapWrite ==
  /\ sPc = "loadFiles"
  /\ sPending = {}
  /\ snapshots' = Put(snapshots, sId,
                      [id |-> sId, date |-> sId[1], createdAt |-> sId[2],
                       note |-> <<>>, courses |-> sCourses, vocabFiles |-> sFiles])
  /\ sPc' = "done"
  /\ UNCHANGED <<sId, sCourses, sFiles, sPending, sSeen>>
  /\ UNCHANGED <<now, tickCount, opCount, courses, vocab, serverState, lastOp,
                 response, atCreate, decayDays, changedByOp>>
  /\ UNCHANGED otherThanRepoAndSnap

SnapNext ==
  \/ SnapStart
  \/ SnapLoadCourses
  \/ \E i \in sPending : SnapLoadFile(i)
  \/ SnapWrite
  \/ \E name \in CourseNames, pageSize \in PageSizeChoices, content \in ContentInputs :
       CreateCourse(name, pageSize, content)
  \/ \E filename \in KnownFilenames, pageSize \in UpdateSizes : UpdateCourse(filename, pageSize)
  \/ \E filename \in KnownFilenames : DeleteCourse(filename)
  \/ \E filename \in KnownFilenames, itemId \in ItemIds, states \in StatesInputs :
       PatchItem(filename, itemId, states)
  \/ DecayCheck

\* C11: the content stored in a snapshot is a point-in-time bundle.  When
\* createSnapshot has written its snapshot, there is one instant during the
\* call at which the course index was the index stored in the snapshot and
\* the vocab files of its courses were the files stored in the snapshot,
\* also when item updates, course changes or a decay run of the same user
\* are handled during the call.
C11_PointInTime ==
  sPc = "done" =>
    \E s \in sSeen :
      /\ snapshots[sId].courses = s.courses
      /\ snapshots[sId].vocabFiles = LoadVocabFiles(s.courses, 1, s.vocab, <<>>)


\* ========================================================================
\* GET /api/courses and its checkAutoSnapshot when operations fail
\* ========================================================================

\* email.toLowerCase().replace(/[^a-z0-9@._-]/g, '_')
IsEmailChar(ch) ==
  ch \in Range(LowerLetters) \cup Range(Digits) \cup {"@", ".", "_", "-"}
SanitizedEmail(email) ==
  [i \in DOMAIN email |->
     IF IsEmailChar(ToLowerCase(email[i])) THEN ToLowerCase(email[i]) ELSE "_"]

\* sanitized.includes(part)
Includes(q, part) ==
  \E i \in 1..(Len(q) - Len(part) + 1) : SubSeq(q, i, i + Len(part) - 1) = part

\* sanitizeEmail(email) returns the sanitized email, or throws AppError(400):
\* does it throw?
SanitizeEmailThrows(email) ==
  \/ email = <<>>
  \/ Includes(SanitizedEmail(email), <<".", ".">>)
  \/ Includes(SanitizedEmail(email), <<"/">>)
  \/ Includes(SanitizedEmail(email), <<"\\">>)

\* The message of the AppError sanitizeEmail throws.
SanitizeEmailMessage(email) ==
  IF email = <<>> THEN "Invalid email" ELSE "Invalid email format"

\* The message of a failed file operation.
IoError == "EIO"

\* Emails a token can carry.
EmailChars == {"a", ".", "/"}
EmailInputs == SeqsUpTo(EmailChars, MaxEmailLen)

\* How a checkAutoSnapshot call ends: return { created: false },
\* return { created: true, snapshot }.
NoCheck == [raised |-> FALSE, created |-> FALSE, hasError |-> FALSE, error |-> ""]
NotCreated == [raised |-> FALSE, created |-> FALSE, hasError |-> FALSE, error |-> ""]
Created == [raised |-> FALSE, created |-> TRUE, hasError |-> FALSE, error |-> ""]

\* A checkAutoSnapshot without its try/catch: the error goes to the caller.
Uncaught(message) ==
  [raised |-> TRUE, created |-> FALSE, hasError |-> TRUE, error |-> message]

\* catch (err) { ...; return { created: false, error: err.message } }
Caught(message) ==
  [raised |-> FALSE, created |-> FALSE, hasError |-> TRUE, error |-> message]

CheckIdle ==
  /\ cPc = "idle"
  /\ cEmail = <<>>
  /\ cIndexReadable = TRUE
  /\ cCheck = NoCheck
  /\ cLocal = [lastDecay |-> Undefined, lastAutoSnapshotWeek |-> Undefined]
  /\ cWeek = Undefined

\* The user of the token, and whether their courses.json is intact.
CheckInit ==
  /\ cPc = "idle"
  /\ cEmail \in EmailInputs
  /\ cIndexReadable \in BOOLEAN
  /\ cCheck = NoCheck
  /\ cLocal = [lastDecay |-> Undefined, lastAutoSnapshotWeek |-> Undefined]
  /\ cWeek = Undefined

\* GET /api/courses arrives: await UserFileService.checkAutoSnapshot(email)
ListRequest ==
  /\ cPc = "idle"
  /\ opCount < MaxOps
  /\ cPc' = "ensure"
  /\ cCheck' = NoCheck
  /\ response' = [status |-> 0]
  /\ UNCHANGED <<cEmail, cIndexReadable, cLocal, cWeek>>
  /\ UNCHANGED <<now, tickCount, opCount, courses, vocab, serverState, snapshots,
                 lastOp, atCreate, decayDays, changedByOp>>
  /\ UNCHANGED otherThanRepoAndCheck

\* await this.ensureUserDataDir(email): sanitizeEmail throws for an invalid
\* email, the access to the directory may fail.
CheckEnsure(fails) ==
  /\ cPc = "ensure"
  /\ IF SanitizeEmailThrows(cEmail)
       THEN cCheck' = Caught(SanitizeEmailMessage(cEmail)) /\ cPc' = "checked"
       ELSE IF fails
         THEN cCheck' = Caught(IoError) /\ cPc' = "checked"
         ELSE cPc' = "loadState" /\ UNCHANGED cCheck
  /\ UNCHANGED <<cEmail, cIndexReadable, cLocal, cWeek>>
  /\ UNCHANGED <<repoVars, otherThanRepoAndCheck>>

\* const state = await this.loadState(email), which may fail; the week number
\* is computed and compared.
CheckLoadState(fails) ==
  /\ cPc = "loadState"
  /\ IF fails
       THEN /\ cCheck' = Caught(IoError)
            /\ cPc' = "checked"
            /\ UNCHANGED <<cLocal, cWeek>>
       ELSE /\ cLocal' = serverState
            /\ cWeek' = WeekNumber(now)
            /\ IF SnapshotTakenThisWeek(serverState, WeekNumber(now))
                 THEN cCheck' = NotCreated /\ cPc' = "checked"
                 ELSE cPc' = "createSnapshot" /\ UNCHANGED cCheck
  /\ UNCHANGED <<cEmail, cIndexReadable>>
  /\ UNCHANGED <<repoVars, otherThanRepoAndCheck>>

\* await this.createSnapshot(email, 'Auto-weekly backup'): its loadCourses
\* fails on an unreadable index, its write may fail.
CheckCreate(fails) ==
  /\ cPc = "createSnapshot"
  /\ IF ~cIndexReadable \/ fails
       THEN /\ cCheck' = Caught(IoError)
            /\ cPc' = "checked"
            /\ UNCHANGED <<snapshots, atCreate>>
       ELSE LET snap == MakeSnapshot(courses, vocab, now, AutoNote)
            IN /\ snapshots' = Put(snapshots, snap.id, snap)
               /\ atCreate' = Put(atCreate, snap.id, [courses |-> courses, vocab |-> vocab,
                                                    note |-> AutoNote])
               /\ cPc' = "saveState"
               /\ UNCHANGED cCheck
  /\ UNCHANGED <<cEmail, cIndexReadable, cLocal, cWeek>>
  /\ UNCHANGED <<now, tickCount, opCount, courses, vocab, serverState, lastOp,
                 response, decayDays, changedByOp>>
  /\ UNCHANGED otherThanRepoAndCheck

\* state.lastAutoSnapshotWeek = weekNumber; await this.saveState(email, state),
\* which may fail; return { created: true, snapshot }.
CheckSave(fails) ==
  /\ cPc = "saveState"
  /\ IF fails
       THEN cCheck' = Caught(IoError) /\ UNCHANGED serverState
       ELSE /\ serverState' = [cLocal EXCEPT !.lastAutoSnapshotWeek = cWeek]
            /\ cCheck' = Created
  /\ cPc' = "checked"
  /\ UNCHANGED <<cEmail, cIndexReadable, cLocal, cWeek>>
  /\ UNCHANGED <<now, tickCount, opCount, courses, vocab, snapshots, lastOp,
                 response, atCreate, decayDays, changedByOp>>
  /\ UNCHANGED otherThanRepoAndCheck

\* checkAutoSnapshot has settled.  An error it raised goes to the route's
\* catch; otherwise const courses = await UserFileService.loadCourses(email),
\* which throws for an invalid email or an unreadable index, and
\* res.json(courses).
ListRespond ==
  /\ cPc = "checked"
  /\ response' = IF cCheck.raised \/ SanitizeEmailThrows(cEmail) \/ ~cIndexReadable
                   THEN [status |-> 500]
                   ELSE [status |-> 200, courses |-> courses]
  /\ cPc' = "idle"
  /\ opCount' = opCount + 1
  /\ lastOp' = "listCourses"
  /\ changedByOp' = FALSE
  /\ UNCHANGED <<cEmail, cIndexReadable, cCheck, cLocal, cWeek>>
  /\ UNCHANGED <<now, tickCount, courses, vocab, serverState, snapshots, atCreate,
                 decayDays>>
  /\ UNCHANGED otherThanRepoAndCheck

CheckNext ==
  \/ \E step \in TickSteps : Tick(step)
  \/ ListRequest
  \/ \E fails \in BOOLEAN : CheckEnsure(fails)
  \/ \E fails \in BOOLEAN : CheckLoadState(fails)
  \/ \E fails \in BOOLEAN : CheckCreate(fails)
  \/ \E fails \in BOOLEAN : CheckSave(fails)
  \/ ListRespond

\* The listing has been answered after a check that reported a failure.
AnsweredAfterFailedCheck ==
  /\ cPc = "idle"
  /\ lastOp = "listCourses"
  /\ cCheck.hasError

\* C20 as stated: checkAutoSnapshot never raises, every failure inside it is
\* reported as {created: false, error}, and the course listing that
\* triggered the check still loads and returns the course index.
C20_ListingReturnsIndex ==
  /\ ~cCheck.raised
  /\ cCheck.hasError => ~cCheck.created
  /\ AnsweredAfterFailedCheck =>
       (response.status = 200 /\ response.courses = courses)

\* C20, amended: checkAutoSnapshot never raises, every failure inside it is
\* reported as {created: false, error}, and the course listing that
\* triggered the check goes on to load the course index; it returns the index
\* unless that load fails itself, which it does exactly when the email is
\* invalid or the index cannot be read.
C20_CheckNeverFatal ==
  /\ ~cCheck.raised
  /\ cCheck.hasError => ~cCheck.created
  /\ (cPc = "idle" /\ lastOp = "listCourses") =>
       IF SanitizeEmailThrows(cEmail) \/ ~cIndexReadable
         THEN response.status = 500
         ELSE response.status = 200 /\ response.courses = courses

\* C20 witness: a check of a valid user failed after it had stored its
\* snapshot (the state could not be saved), and the listing returned the index.
C20_Witness ==
  /\ AnsweredAfterFailedCheck
  /\ ~SanitizeEmailThrows(cEmail)
  /\ response.status = 200
  /\ snapshots # <<>>
  /\ serverState.lastAutoSnapshotWeek = Undefined


\* ========================================================================
\* Vocab file operations: loadVocabFile / saveVocabFile / deleteVocabFile
\* ========================================================================

\* CONFIG.filenamePattern = /^[a-zA-Z0-9_-]+\.json$/
JsonExt == <<".", "j", "s", "o", "n">>
IsNameChar(ch) == IsAlnum(ch) \/ ch = "_" \/ ch = "-"
MatchesFilenamePattern(name) ==
  /\ Len(name) > Len(JsonExt)
  /\ SubSeq(name, Len(name) - Len(JsonExt) + 1, Len(name)) = JsonExt
  /\ \A i \in 1..(Len(name) - Len(JsonExt)) : IsNameChar(name[i])

\* sanitizeFilename(name) returns name, or throws AppError(400): does it throw?
\* (!name covers the empty string.)
SanitizeFilenameThrows(name) == name = <<>> \/ ~MatchesFilenamePattern(name)

\* Filenames a request can carry: a stem over a few characters that are and
\* are not allowed, with or without the .json extension.
StemChars == {"a", "_", ".", "/"}
FilenameInputs ==
  {stem \o ext : stem \in SeqsUpTo(StemChars, MaxNameLen), ext \in {<<>>, JsonExt}}

\* The filesystem calls ensureUserDataDir issues when nothing else is going
\* on: fileExists(userDir), and for a new user mkdir, fileExists(default
\* courses.json) and the atomicWrite of an empty courses.json.
EnsureCalls(exists) ==
  IF exists THEN <<"access">>
  ELSE <<"access", "mkdir", "access", "writeFile", "rename">>

FilesIdle ==
  /\ fileOp = "none"
  /\ fileArg = <<>>
  /\ fileOutcome = "none"
  /\ ioLog = <<>>
  /\ userDirExists = FALSE
  /\ storedNames = {}
  /\ fileOpCount = 0

\* A user with or without a directory; no request made yet.
FilesInit ==
  /\ fileOp = "none"
  /\ fileArg = <<>>
  /\ fileOutcome = "none"
  /\ ioLog = <<>>
  /\ userDirExists \in BOOLEAN
  /\ storedNames = {}
  /\ fileOpCount = 0

\* UserFileService.loadVocabFile(email, filename)
LoadVocabFile(filename) ==
  /\ fileOpCount < MaxFileOps
  /\ fileOpCount' = fileOpCount + 1
  /\ fileOp' = "loadVocabFile"
  /\ fileArg' = filename
  /\ userDirExists' = TRUE
  /\ UNCHANGED storedNames
  /\ LET ensured == EnsureCalls(userDirExists) IN
       IF SanitizeFilenameThrows(filename)
         THEN /\ ioLog' = ensured
              /\ fileOutcome' = "InvalidInput"
         ELSE IF filename \notin storedNames
           THEN /\ ioLog' = ensured \o <<"access">>
                /\ fileOutcome' = "NotFound"
           ELSE /\ ioLog' = ensured \o <<"access", "readFile">>
                /\ fileOutcome' = "ok"
  /\ UNCHANGED otherThanFiles

\* UserFileService.saveVocabFile(email, filename, data)
SaveVocabFile(filename) ==
  /\ fileOpCount < MaxFileOps
  /\ fileOpCount' = fileOpCount + 1
  /\ fileOp' = "saveVocabFile"
  /\ fileArg' = filename
  /\ userDirExists' = TRUE
  /\ LET ensured == EnsureCalls(userDirExists) IN
       IF SanitizeFilenameThrows(filename)
         THEN /\ ioLog' = ensured
              /\ fileOutcome' = "InvalidInput"
              /\ UNCHANGED storedNames
         ELSE /\ ioLog' = ensured \o <<"writeFile", "rename">>
              /\ fileOutcome' = "ok"
              /\ storedNames' = storedNames \cup {filename}
  /\ UNCHANGED otherThanFiles

\* UserFileService.deleteVocabFile(email, filename)
DeleteVocabFile(filename) ==
  /\ fileOpCount < MaxFileOps
  /\ fileOpCount' = fileOpCount + 1
  /\ fileOp' = "deleteVocabFile"
  /\ fileArg' = filename
  /\ UNCHANGED userDirExists
  /\ IF SanitizeFilenameThrows(filename)
       THEN /\ ioLog' = <<>>
            /\ fileOutcome' = "InvalidInput"
            /\ UNCHANGED storedNames
       ELSE /\ ioLog' = IF filename \in storedNames
                          THEN <<"access", "unlink">> ELSE <<"access">>
            /\ fileOutcome' = "ok"
            /\ storedNames' = storedNames \ {filename}
  /\ UNCHANGED otherThanFiles

FilesNext ==
  \/ \E filename \in FilenameInputs : LoadVocabFile(filename)
  \/ \E filename \in FilenameInputs : SaveVocabFile(filename)
  \/ \E filename \in FilenameInputs : DeleteVocabFile(filename)

\* C5: for a filename that does not match ^[a-zA-Z0-9_-]+\.json$ each of
\* loadVocabFile, saveVocabFile and deleteVocabFile fails with InvalidInput
\* before it has issued any storage or filesystem call.
C5_ValidatedBeforeStorage ==
  (fileOp # "none" /\ ~MatchesFilenamePattern(fileArg)) =>
    (fileOutcome = "InvalidInput" /\ ioLog = <<>>)


\* ========================================================================
\* Writing one file: FileSystemAdapter.write and UserFileService.atomicWrite
\* ========================================================================

Writers == 1..NumWriters

\* File content is a sequence of chunks; a chunk carries the writer it came
\* from (OldWriter: the content before any write), or is a hole of zero bytes
\* left by a write beyond the end of a truncated file.
OldWriter == 0
Hole == -2

\* What a read of a path returns when there is no such file (ENOENT).
NoFile == <<Undefined>>

\* filepath, and `${filepath}.tmp.${Date.now()}`
TargetPath == [kind |-> "target", stamp |-> Undefined]
TmpPath(t) == [kind |-> "tmp", stamp |-> t]

\* JSON.stringify(data, null, 2) of writer w, len chunks long
WriterData(w, len) == [i \in 1..len |-> w]

\* pwrite of one chunk at offset pos
WriteAt(content, pos, chunk) ==
  IF pos < Len(content)
    THEN [content EXCEPT ![pos + 1] = chunk]
    ELSE content \o [i \in 1..(pos - Len(content)) |-> Hole] \o <<chunk>>

\* fs.readFile(filepath) by a later reader
ReadTarget ==
  IF TargetPath \in DOMAIN dirEntries THEN inodes[dirEntries[TargetPath]] ELSE NoFile

WriteIdle ==
  /\ wNow = 0
  /\ wPc = [w \in Writers |-> "idle"]
  /\ wMethod = [w \in Writers |-> "none"]
  /\ wData = [w \in Writers |-> <<>>]
  /\ wTmp = [w \in Writers |-> TargetPath]
  /\ wInode = [w \in Writers |-> 0]
  /\ wPos = [w \in Writers |-> 0]
  /\ dirEntries = <<>>
  /\ inodes = <<>>
  /\ wOld = NoFile
  /\ processUp = TRUE
  /\ wFaulted = FALSE

\* The target does not exist yet, or holds complete earlier content.
WriteInit ==
  /\ wNow = 0
  /\ wPc = [w \in Writers |-> "idle"]
  /\ wMethod = [w \in Writers |-> "none"]
  /\ wData = [w \in Writers |-> <<>>]
  /\ wTmp = [w \in Writers |-> TargetPath]
  /\ wInode = [w \in Writers |-> 0]
  /\ wPos = [w \in Writers |-> 0]
  /\ \E oldLen \in 0..MaxChunks :
       IF oldLen = 0
         THEN dirEntries = <<>> /\ inodes = <<>> /\ wOld = NoFile
         ELSE /\ dirEntries = Put(<<>>, TargetPath, 1)
              /\ inodes = <<WriterData(OldWriter, oldLen)>>
              /\ wOld = WriterData(OldWriter, oldLen)
  /\ processUp = TRUE
  /\ wFaulted = FALSE

\* Date.now() moves on.
WriteTick ==
  /\ processUp
  /\ wNow < MaxTicks
  /\ wNow' = wNow + 1
  /\ UNCHANGED <<wPc, wMethod, wData, wTmp, wInode, wPos, dirEntries, inodes, wOld,
                 processUp, wFaulted>>
  /\ UNCHANGED otherThanWrite

\* fs.writeFile(path, ...) opens path with flag 'w': an existing file is
\* truncated, a missing one created.
OpenTruncate(w, path) ==
  IF path \in DOMAIN dirEntries
    THEN /\ inodes' = [inodes EXCEPT ![dirEntries[path]] = <<>>]
         /\ wInode' = [wInode EXCEPT ![w] = dirEntries[path]]
         /\ UNCHANGED dirEntries
    ELSE /\ inodes' = Append(inodes, <<>>)
         /\ wInode' = [wInode EXCEPT ![w] = Len(inodes) + 1]
         /\ dirEntries' = Put(dirEntries, path, Len(inodes) + 1)

\* FileSystemAdapter.write(filePath, data): fs.writeFile on the target itself.
FsWrite(w, len) ==
  /\ processUp
  /\ wPc[w] = "idle"
  /\ wPc' = [wPc EXCEPT ![w] = "writing"]
  /\ wMethod' = [wMethod EXCEPT ![w] = "direct"]
  /\ wData' = [wData EXCEPT ![w] = WriterData(w, len)]
  /\ wPos' = [wPos EXCEPT ![w] = 0]
  /\ OpenTruncate(w, TargetPath)
  /\ UNCHANGED <<wNow, wTmp, wOld, processUp, wFaulted>>
  /\ UNCHANGED otherThanWrite

\* UserFileService.atomicWrite(filepath, data): fs.writeFile on the tmp path.
AtomicWrite(w, len) ==
  /\ processUp
  /\ wPc[w] = "idle"
  /\ wPc' = [wPc EXCEPT ![w] = "writing"]
  /\ wMethod' = [wMethod EXCEPT ![w] = "atomic"]
  /\ wData' = [wData EXCEPT ![w] = WriterData(w, len)]
  /\ wPos' = [wPos EXCEPT ![w] = 0]
  /\ wTmp' = [wTmp EXCEPT ![w] = TmpPath(wNow)]
  /\ OpenTruncate(w, TmpPath(wNow))
  /\ UNCHANGED <<wNow, wOld, processUp, wFaulted>>
  /\ UNCHANGED otherThanWrite

\* fs.writeFile writes the next chunk through its file descriptor.
WriteChunk(w) ==
  /\ processUp
  /\ wPc[w] = "writing"
  /\ wPos[w] < Len(wData[w])
  /\ inodes' = [inodes EXCEPT ![wInode[w]] = WriteAt(@, wPos[w], wData[w][wPos[w] + 1])]
  /\ wPos' = [wPos EXCEPT ![w] = wPos[w] + 1]
  /\ UNCHANGED <<wNow, wPc, wMethod, wData, wTmp, wInode, dirEntries, wOld,
                 processUp, wFaulted>>
  /\ UNCHANGED otherThanWrite

\* fs.writeFile resolves: FileSystemAdapter.write returns, atomicWrite goes on
\* to the rename.
WriteEnd(w) ==
  /\ processUp
  /\ wPc[w] = "writing"
  /\ wPos[w] = Len(wData[w])
  /\ wPc' = [wPc EXCEPT ![w] = IF wMethod[w] = "direct" THEN "done" ELSE "renaming"]
  /\ UNCHANGED <<wNow, wMethod, wData, wTmp, wInode, wPos, dirEntries, inodes, wOld,
                 processUp, wFaulted>>
  /\ UNCHANGED otherThanWrite

\* fs.rename(tmpPath, filepath); with the tmp path gone it rejects (ENOENT),
\* the cleanup unlink rejects too and is ignored, and atomicWrite throws.
Rename(w) ==
  /\ processUp
  /\ wPc[w] = "renaming"
  /\ IF wTmp[w] \in DOMAIN dirEntries
       THEN /\ dirEntries' = Put(Remove(dirEntries, wTmp[w]), TargetPath, dirEntries[wTmp[w]])
            /\ wPc' = [wPc EXCEPT ![w] = "done"]
       ELSE /\ wPc' = [wPc EXCEPT ![w] = "failed"]
            /\ UNCHANGED dirEntries
  /\ UNCHANGED <<wNow, wMethod, wData, wTmp, wInode, wPos, inodes, wOld, processUp,
                 wFaulted>>
  /\ UNCHANGED otherThanWrite

\* fs.writeFile rejects part-way (disk full, I/O error).  FileSystemAdapter.write
\* just throws; atomicWrite unlinks the tmp path first.
WriteError(w) ==
  /\ processUp
  /\ wPc[w] = "writing"
  /\ wPc' = [wPc EXCEPT ![w] = "failed"]
  /\ wFaulted' = TRUE
  /\ dirEntries' = IF wMethod[w] = "atomic" THEN Remove(dirEntries, wTmp[w]) ELSE dirEntries
  /\ UNCHANGED <<wNow, wMethod, wData, wTmp, wInode, wPos, inodes, wOld, processUp>>
  /\ UNCHANGED otherThanWrite

\* The process stops (crash, kill, container shutdown) wherever the writes are.
ProcessStops ==
  /\ processUp
  /\ processUp' = FALSE
  /\ UNCHANGED <<wNow, wPc, wMethod, wData, wTmp, wInode, wPos, dirEntries, inodes,
                 wOld, wFaulted>>
  /\ UNCHANGED otherThanWrite

WriteNext ==
  \/ WriteTick
  \/ \E w \in Writers, len \in 1..MaxChunks : FsWrite(w, len)
  \/ \E w \in Writers, len \in 1..MaxChunks : AtomicWrite(w, len)
  \/ \E w \in Writers : WriteChunk(w)
  \/ \E w \in Writers : WriteEnd(w)
  \/ \E w \in Writers : Rename(w)
  \/ \E w \in Writers : WriteError(w)
  \/ ProcessStops

\* C6: a write is all-or-nothing.  With a single writer at work, if its write
\* has failed or the process has stopped at any step of it, a read of the
\* target returns the complete previous content or the complete new content,
\* for atomicWrite and for FileSystemAdapter.write alike.
C6_AllOrNothing ==
  \A w \in Writers :
    ( /\ \A v \in Writers \ {w} : wPc[v] = "idle"
      /\ wPc[w] # "idle"
      /\ wPc[w] = "failed" \/ ~processUp )
    => ReadTarget \in {wOld, wData[w]}

\* C10: when the concurrent writers of one file have all finished, without
\* any I/O error, the file holds exactly the whole content one of them wrote:
\* never a mixture of the two, never unreadable.
C10_LastWriteWins ==
  ( /\ processUp
    /\ ~wFaulted
    /\ \A w \in Writers : wPc[w] \in {"done", "failed"}
    /\ \E w \in Writers : wPc[w] = "done" )
  => \E w \in Writers : ReadTarget = wData[w]

\* Only atomicWrite calls have been made.
OnlyAtomicWrites == \A w \in Writers : wMethod[w] \in {"none", "atomic"}

\* C38: of overlapping atomicWrite calls on one target, a call that returns
\* has installed exactly its own complete data by its rename, a call that
\* throws has left nothing of its data in the target, and no temporary file
\* is left when all calls are over.
C38_AtomicWritesIsolated ==
  /\ [][\A w \in Writers :
          (OnlyAtomicWrites /\ wPc[w] = "renaming" /\ wPc'[w] = "done")
            => ReadTarget' = wData[w]]_vars
  /\ []((OnlyAtomicWrites /\ processUp) =>
          \A w \in Writers :
            wPc[w] = "failed" => \A i \in DOMAIN ReadTarget : ReadTarget[i] # w)
  /\ []((OnlyAtomicWrites /\ processUp
           /\ \A w \in Writers : wPc[w] \in {"idle", "done", "failed"})
          => DOMAIN dirEntries \subseteq {TargetPath})


\* ========================================================================
\* Overlapping maintenance requests of one user
\* ========================================================================

Requests == 1..NumRequests

MaintIdle ==
  /\ mPc = [r \in Requests |-> "idle"]
  /\ mKind = [r \in Requests |-> "none"]
  /\ mUnit = [r \in Requests |-> Undefined]
  /\ mLocal = [r \in Requests |-> [lastDecay |-> Undefined,
                                   lastAutoSnapshotWeek |-> Undefined]]
  /\ decayRuns = <<>>

\* POST /api/maintenance/decay arrives: today is taken, loadState is awaited.
DecayRequest(r) ==
  /\ mPc[r] = "idle"
  /\ mKind' = [mKind EXCEPT ![r] = "decay"]
  /\ mUnit' = [mUnit EXCEPT ![r] = Today(now)]
  /\ mPc' = [mPc EXCEPT ![r] = "loadState"]
  /\ UNCHANGED <<mLocal, decayRuns>>
  /\ UNCHANGED <<repoVars, otherThanRepoAndMaint>>

\* loadState resolved: if (state.lastDecay === today) return {run: false}.
DecayLoaded(r) ==
  /\ mPc[r] = "loadState"
  /\ mKind[r] = "decay"
  /\ mLocal' = [mLocal EXCEPT ![r] = serverState]
  /\ mPc' = [mPc EXCEPT ![r] =
               IF AlreadyRunToday(serverState, mUnit[r]) THEN "done" ELSE "work"]
  /\ UNCHANGED <<mKind, mUnit, decayRuns>>
  /\ UNCHANGED <<repoVars, otherThanRepoAndMaint>>

\* The per-course loop: the decay algorithm is run over the user's courses.
DecayRun(r) ==
  /\ mPc[r] = "work"
  /\ mKind[r] = "decay"
  /\ vocab' = DecayCourses(courses, 1, vocab, 0).files
  /\ decayRuns' = Put(decayRuns, mUnit[r],
                      IF mUnit[r] \in DOMAIN decayRuns THEN decayRuns[mUnit[r]] + 1 ELSE 1)
  /\ mPc' = [mPc EXCEPT ![r] = "saveState"]
  /\ UNCHANGED <<mKind, mUnit, mLocal>>
  /\ UNCHANGED <<now, tickCount, opCount, courses, serverState, snapshots, lastOp,
                 response, atCreate, decayDays, changedByOp>>
  /\ UNCHANGED otherThanRepoAndMaint

\* state.lastDecay = today; await saveState(email, state): the state object
\* read earlier is written back whole.
DecaySave(r) ==
  /\ mPc[r] = "saveState"
  /\ mKind[r] = "decay"
  /\ serverState' = [mLocal[r] EXCEPT !.lastDecay = mUnit[r]]
  /\ mPc' = [mPc EXCEPT ![r] = "done"]
  /\ UNCHANGED <<mKind, mUnit, mLocal, decayRuns>>
  /\ UNCHANGED <<now, tickCount, opCount, courses, vocab, snapshots, lastOp,
                 response, atCreate, decayDays, changedByOp>>
  /\ UNCHANGED otherThanRepoAndMaint

\* GET /api/courses arrives: checkAutoSnapshot awaits loadState.
AutoRequest(r) ==
  /\ mPc[r] = "idle"
  /\ mKind' = [mKind EXCEPT ![r] = "auto"]
  /\ mPc' = [mPc EXCEPT ![r] = "loadState"]
  /\ UNCHANGED <<mUnit, mLocal, decayRuns>>
  /\ UNCHANGED <<repoVars, otherThanRepoAndMaint>>

\* loadState resolved: the week number is taken;
\* if (state.lastAutoSnapshotWeek === weekNumber) return {created: false}.
AutoLoaded(r) ==
  /\ mPc[r] = "loadState"
  /\ mKind[r] = "auto"
  /\ mLocal' = [mLocal EXCEPT ![r] = serverState]
  /\ mUnit' = [mUnit EXCEPT ![r] = WeekNumber(now)]
  /\ mPc' = [mPc EXCEPT ![r] =
               IF SnapshotTakenThisWeek(serverState, WeekNumber(now)) THEN "done" ELSE "work"]
  /\ UNCHANGED <<mKind, decayRuns>>
  /\ UNCHANGED <<repoVars, otherThanRepoAndMaint>>

\* await this.createSnapshot(email, 'Auto-weekly backup')
AutoCreate(r) ==
  /\ mPc[r] = "work"
  /\ mKind[r] = "auto"
  /\ LET snap == MakeSnapshot(courses, vocab, now, AutoNote)
     IN /\ snapshots' = Put(snapshots, snap.id, snap)
        /\ atCreate' = Put(atCreate, snap.id, [courses |-> courses, vocab |-> vocab,
                                                    note |-> AutoNote])
  /\ mPc' = [mPc EXCEPT ![r] = "saveState"]
  /\ UNCHANGED <<mKind, mUnit, mLocal, decayRuns>>
  /\ UNCHANGED <<now, tickCount, opCount, courses, vocab, serverState, lastOp,
                 response, decayDays, changedByOp>>
  /\ UNCHANGED otherThanRepoAndMaint

\* state.lastAutoSnapshotWeek = weekNumber; await this.saveState(email, state)
AutoSave(r) ==
  /\ mPc[r] = "saveState"
  /\ mKind[r] = "auto"
  /\ serverState' = [mLocal[r] EXCEPT !.lastAutoSnapshotWeek = mUnit[r]]
  /\ mPc' = [mPc EXCEPT ![r] = "done"]
  /\ UNCHANGED <<mKind, mUnit, mLocal, decayRuns>>
  /\ UNCHANGED <<now, tickCount, opCount, courses, vocab, snapshots, lastOp,
                 response, atCreate, decayDays, changedByOp>>
  /\ UNCHANGED otherThanRepoAndMaint

MaintNext ==
  \/ \E step \in TickSteps : Tick(step)
  \/ \E r \in Requests : DecayRequest(r)
  \/ \E r \in Requests : DecayLoaded(r)
  \/ \E r \in Requests : DecayRun(r)
  \/ \E r \in Requests : DecaySave(r)
  \/ \E r \in Requests : AutoRequest(r)
  \/ \E r \in Requests : AutoLoaded(r)
  \/ \E r \in Requests : AutoCreate(r)
  \/ \E r \in Requests : AutoSave(r)

\* The automatic snapshots stored for week w.
AutoSnapshotsOfWeek(w) ==
  {id \in DOMAIN snapshots :
     snapshots[id].note = AutoNote /\ WeekNumber(snapshots[id].createdAt) = w}

\* C9: under any interleaving of overlapping decay-check and auto-snapshot-check
\* requests of one user, the decay algorithm is run by at most one request per
\* calendar date and at most one automatic snapshot is created per week number.
C9_OncePerUnit ==
  /\ \A d \in DOMAIN decayRuns : decayRuns[d] <= 1
  /\ \A id \in DOMAIN snapshots : Cardinality(AutoSnapshotsOfWeek(WeekNumber(snapshots[id].createdAt))) <= 1

\* C19: checkAutoSnapshot calls of one user, each completing before the next
\* begins.  A call made when the stored lastAutoSnapshotWeek equals the
\* current week number creates no snapshot and changes no state; a call made
\* when it differs stores exactly one snapshot, with the fixed note, and
\* stores the current week number; so there is at most one automatic
\* snapshot per week number.
C19_AutoSnapshotWeekly ==
  /\ [](\A id \in DOMAIN snapshots :
         Cardinality(AutoSnapshotsOfWeek(WeekNumber(snapshots[id].createdAt))) <= 1)
  /\ [][(lastOp' = "listCourses" /\ opCount' = opCount + 1) =>
         LET weekNumber == WeekNumber(now)
             id == SnapshotId(now)
         IN IF serverState.lastAutoSnapshotWeek = weekNumber
              THEN /\ snapshots' = snapshots
                   /\ serverState' = serverState
                   /\ courses' = courses
                   /\ vocab' = vocab
              ELSE /\ DOMAIN snapshots' = DOMAIN snapshots \cup {id}
                   /\ \A other \in DOMAIN snapshots \ {id} : snapshots'[other] = snapshots[other]
                   /\ snapshots'[id].note = AutoNote
                   /\ snapshots'[id].createdAt = now
                   /\ serverState' = [serverState EXCEPT !.lastAutoSnapshotWeek = weekNumber]]_vars

\* C19 witness: a check made later in a week that has its automatic snapshot
\* created nothing, and a check of an earlier week had created one.
C19_Witness ==
  /\ lastOp = "listCourses"
  /\ serverState.lastAutoSnapshotWeek = WeekNumber(now)
  /\ \E id \in AutoSnapshotsOfWeek(WeekNumber(now)) : snapshots[id].createdAt < now
  /\ AutoSnapshotsOfWeek(WeekNumber(now)) # {id \in DOMAIN snapshots : snapshots[id].note = AutoNote}


\* ========================================================================
\* Specifications
\* ========================================================================

EnsureIdle ==
  /\ ePc = [c \in Callers |-> "idle"]
  /\ eAwait = [c \in Callers |-> 0]
  /\ eSawDir = [c \in Callers |-> FALSE]
  /\ initializingUsers = NoEntry
  /\ runPc = [r \in Runs |-> "unused"]
  /\ runCopies = [r \in Runs |-> {}]
  /\ runSettled = [r \in Runs |-> "pending"]
  /\ dirExists = FALSE
  /\ userCourses = "absent"
  /\ userFiles = {}
  /\ defaultIndex = FALSE
  /\ defaultSrc = {}
  /\ callCount = 0
  /\ initStarted = 0
  /\ completeAtReturn = [c \in Callers |-> FALSE]

\* ------------------------------------------------------------------------
\* Overlapping deleteVocabFile calls
\* ------------------------------------------------------------------------
\* deleteVocabFile awaits fileExists(filepath) and then, if the file was
\* there, awaits fs.unlink(filepath): other calls run between the two.

Deleters == 1..NumCallers

\* Files a user may have stored before the calls are made.
StoredCandidates ==
  {name \in FilenameInputs :
     ~SanitizeFilenameThrows(name) /\ Len(name) = Len(JsonExt) + 1}

DeleteIdle ==
  /\ delPc = [d \in Deleters |-> "idle"]
  /\ delFile = [d \in Deleters |-> <<>>]
  /\ delSaw = [d \in Deleters |-> FALSE]
  /\ delOutcome = [d \in Deleters |-> "none"]
  /\ delStored = {}

DeleteInit ==
  /\ delPc = [d \in Deleters |-> "idle"]
  /\ delFile = [d \in Deleters |-> <<>>]
  /\ delSaw = [d \in Deleters |-> FALSE]
  /\ delOutcome = [d \in Deleters |-> "none"]
  /\ delStored \in SUBSET StoredCandidates

\* const sanitized = sanitizeFilename(filename); the call is rejected, or
\* goes on to fileExists(filepath).
DeleteCall(d, filename) ==
  /\ delPc[d] = "idle"
  /\ delFile' = [delFile EXCEPT ![d] = filename]
  /\ IF SanitizeFilenameThrows(filename)
       THEN /\ delPc' = [delPc EXCEPT ![d] = "done"]
            /\ delOutcome' = [delOutcome EXCEPT ![d] = "InvalidInput"]
       ELSE /\ delPc' = [delPc EXCEPT ![d] = "exists"]
            /\ UNCHANGED delOutcome
  /\ UNCHANGED <<delSaw, delStored>>
  /\ UNCHANGED <<ensureVars, decayVars, repoVars, filesVars, writeVars, maintVars,
                 snapVars, checkVars, storeVars, namespaceVars, adapterVars, courseDeleteVars, courseCreateVars, stateFileVars, extendedVars, pageLoopVars>>

\* if (await fileExists(filepath)): without the file the call is over.
DeleteExists(d) ==
  /\ delPc[d] = "exists"
  /\ delSaw' = [delSaw EXCEPT ![d] = delFile[d] \in delStored]
  /\ IF delFile[d] \in delStored
       THEN /\ delPc' = [delPc EXCEPT ![d] = "unlink"]
            /\ UNCHANGED delOutcome
       ELSE /\ delPc' = [delPc EXCEPT ![d] = "done"]
            /\ delOutcome' = [delOutcome EXCEPT ![d] = "ok"]
  /\ UNCHANGED <<delFile, delStored>>
  /\ UNCHANGED <<ensureVars, decayVars, repoVars, filesVars, writeVars, maintVars,
                 snapVars, checkVars, storeVars, namespaceVars, adapterVars, courseDeleteVars, courseCreateVars, stateFileVars, extendedVars, pageLoopVars>>

\* await fs.unlink(filepath): rejected with ENOENT when the file is not there
\* any more, and nothing catches it in deleteVocabFile.
DeleteUnlink(d) ==
  /\ delPc[d] = "unlink"
  /\ delPc' = [delPc EXCEPT ![d] = "done"]
  /\ delOutcome' = [delOutcome EXCEPT ![d] =
                      IF delFile[d] \in delStored THEN "ok" ELSE "ENOENT"]
  /\ delStored' = delStored \ {delFile[d]}
  /\ UNCHANGED <<delFile, delSaw>>
  /\ UNCHANGED <<ensureVars, decayVars, repoVars, filesVars, writeVars, maintVars,
                 snapVars, checkVars, storeVars, namespaceVars, adapterVars, courseDeleteVars, courseCreateVars, stateFileVars, extendedVars, pageLoopVars>>

DeleteNext ==
  \/ \E d \in Deleters, filename \in FilenameInputs : DeleteCall(d, filename)
  \/ \E d \in Deleters : DeleteExists(d)
  \/ \E d \in Deleters : DeleteUnlink(d)

\* C29: a deleteVocabFile call with a valid filename succeeds whether or not
\* the file is there, also when another deleteVocabFile call for the same
\* file overlaps it, and after it the file is absent.
C29_DeleteIdempotent ==
  \A d \in Deleters :
    (delPc[d] = "done" /\ ~SanitizeFilenameThrows(delFile[d])) =>
      /\ delOutcome[d] = "ok"
      /\ (\A e \in Deleters : delFile[e] = delFile[d] => delPc[e] \in {"idle", "done"})
           => delFile[d] \notin delStored

\* ------------------------------------------------------------------------
\* The data directories of different users
\* ------------------------------------------------------------------------

\* Emails of the users: a letter in both cases, a character sanitizeEmail
\* replaces, the character it replaces it with, and the dot.
UserEmailChars == {"a", "A", "+", "_", "."}
UserEmails == SeqsUpTo(UserEmailChars, MaxEmailLen)

\* path.join(CONFIG.dataDir, 'users', sanitizedEmail), as path segments:
\* path.join drops a '.' segment.
GetUserDataDir(email) ==
  IF SanitizedEmail(email) = <<".">>
    THEN <<"dataDir", "users">>
    ELSE <<"dataDir", "users", SanitizedEmail(email)>>

NamespaceIdle ==
  /\ nsDirs = <<>>
  /\ nsOp = "none"
  /\ nsEmail = <<>>
  /\ nsOutcome = "none"
  /\ nsRead = <<>>
  /\ nsOps = 0

\* UserFileService.saveVocabFile for the user of this email: the file in the
\* user's data directory now holds this user's data.
SaveFor(email) ==
  /\ nsOps < MaxFileOps
  /\ nsOps' = nsOps + 1
  /\ nsOp' = "save"
  /\ nsEmail' = email
  /\ nsRead' = <<>>
  /\ IF SanitizeEmailThrows(email)
       THEN /\ nsOutcome' = "InvalidInput"
            /\ UNCHANGED nsDirs
       ELSE /\ nsOutcome' = "ok"
            /\ nsDirs' = [p \in DOMAIN nsDirs \cup {GetUserDataDir(email)} |->
                            IF p = GetUserDataDir(email) THEN email ELSE nsDirs[p]]
  /\ UNCHANGED <<ensureVars, decayVars, repoVars, filesVars, writeVars, maintVars,
                 snapVars, checkVars, storeVars, deleteVars, adapterVars, courseDeleteVars, courseCreateVars, stateFileVars, extendedVars, pageLoopVars>>

\* UserFileService.loadVocabFile for the user of this email.
LoadFor(email) ==
  /\ nsOps < MaxFileOps
  /\ nsOps' = nsOps + 1
  /\ nsOp' = "load"
  /\ nsEmail' = email
  /\ UNCHANGED nsDirs
  /\ IF SanitizeEmailThrows(email)
       THEN /\ nsOutcome' = "InvalidInput"
            /\ nsRead' = <<>>
       ELSE IF GetUserDataDir(email) \notin DOMAIN nsDirs
         THEN /\ nsOutcome' = "NotFound"
              /\ nsRead' = <<>>
         ELSE /\ nsOutcome' = "ok"
              /\ nsRead' = nsDirs[GetUserDataDir(email)]
  /\ UNCHANGED <<ensureVars, decayVars, repoVars, filesVars, writeVars, maintVars,
                 snapVars, checkVars, storeVars, deleteVars, adapterVars, courseDeleteVars, courseCreateVars, stateFileVars, extendedVars, pageLoopVars>>

NamespaceNext ==
  \/ \E email \in UserEmails : SaveFor(email)
  \/ \E email \in UserEmails : LoadFor(email)

\* C30: two different emails that sanitizeEmail accepts never get the same
\* data directory: a load made for one user never returns what was stored
\* for a user of another email.
C30_NamespaceCollisionFree ==
  (nsOp = "load" /\ nsOutcome = "ok") => nsRead = nsEmail

\* ------------------------------------------------------------------------
\* FileSystemAdapter.resolve
\* ------------------------------------------------------------------------
\* Paths are strings over a name character, the dot and the separator.

PathChars == {"a", ".", "/"}
PathInputs == SeqsUpTo(PathChars, MaxPathLen)

\* this.baseDir, an absolute directory
baseDir == <<"/", "d">>

\* path.split('/')
RECURSIVE SplitSegments(_)
SplitSegments(text) ==
  IF \A i \in DOMAIN text : text[i] # "/" THEN <<text>>
  ELSE LET i == CHOOSE k \in DOMAIN text :
                  text[k] = "/" /\ \A j \in 1..(k - 1) : text[j] # "/"
       IN <<SubSeq(text, 1, i - 1)>> \o SplitSegments(SubSeq(text, i + 1, Len(text)))

\* segments.join('/')
RECURSIVE JoinSegments(_)
JoinSegments(segments) ==
  IF segments = <<>> THEN <<>>
  ELSE IF Len(segments) = 1 THEN segments[1]
  ELSE segments[1] \o <<"/">> \o JoinSegments(Tail(segments))

\* normalizeString(path, allowAboveRoot) of path.posix: empty and '.' segments
\* are dropped, '..' takes back the segment before it, and is kept where
\* there is none to take back and the path is relative.
RECURSIVE NormalizeSegments(_, _, _)
NormalizeSegments(segments, kept, allowAboveRoot) ==
  IF segments = <<>> THEN kept
  ELSE LET seg == Head(segments)
           rest == Tail(segments)
       IN IF seg = <<>> \/ seg = <<".">>
            THEN NormalizeSegments(rest, kept, allowAboveRoot)
          ELSE IF seg = <<".", ".">>
            THEN IF kept # <<>> /\ kept[Len(kept)] # <<".", ".">>
                   THEN NormalizeSegments(rest, SubSeq(kept, 1, Len(kept) - 1),
                                          allowAboveRoot)
                 ELSE IF allowAboveRoot
                   THEN NormalizeSegments(rest, Append(kept, seg), allowAboveRoot)
                 ELSE NormalizeSegments(rest, kept, allowAboveRoot)
          ELSE NormalizeSegments(rest, Append(kept, seg), allowAboveRoot)

\* path.normalize(path)
Normalize(path) ==
  IF path = <<>> THEN <<".">>
  ELSE LET isAbsolute == path[1] = "/"
           trailingSeparator == path[Len(path)] = "/"
           body == JoinSegments(NormalizeSegments(SplitSegments(path), <<>>,
                                                  ~isAbsolute))
           relative == IF body = <<>>
                         THEN IF isAbsolute THEN <<>>
                              ELSE IF trailingSeparator THEN <<".", "/">> ELSE <<".">>
                         ELSE IF trailingSeparator THEN body \o <<"/">> ELSE body
       IN IF isAbsolute THEN <<"/">> \o relative ELSE relative

\* .replace(/^(\.\.[\/\\])+/, ''): leading '..' segments that are followed
\* by a separator are removed.
RECURSIVE StripLeadingDotDots(_)
StripLeadingDotDots(path) ==
  IF Len(path) >= 3 /\ SubSeq(path, 1, 3) = <<".", ".", "/">>
    THEN StripLeadingDotDots(SubSeq(path, 4, Len(path)))
    ELSE path

\* path.join(a, b): the non-empty arguments joined by '/' and normalized
PathJoin(a, b) == IF b = <<>> THEN Normalize(a) ELSE Normalize(a \o <<"/">> \o b)

\* FileSystemAdapter.resolve(filePath)
Resolve(filePath) == PathJoin(baseDir, StripLeadingDotDots(Normalize(filePath)))

\* The path is baseDir or below it.
InsideBaseDir(full) ==
  \/ full = baseDir
  \/ /\ Len(full) > Len(baseDir)
     /\ SubSeq(full, 1, Len(baseDir) + 1) = baseDir \o <<"/">>

\* exists, read, write, delete, list and ensureDir all begin with
\* this.resolve(path).
AdapterOps == {"exists", "read", "write", "delete", "list", "ensureDir"}

AdapterIdle ==
  /\ adOp = "none"
  /\ adPath = <<>>
  /\ adFull = <<>>

AdapterCall(op, filePath) ==
  /\ adOp' = op
  /\ adPath' = filePath
  /\ adFull' = Resolve(filePath)
  /\ UNCHANGED <<ensureVars, decayVars, repoVars, filesVars, writeVars, maintVars,
                 snapVars, checkVars, storeVars, deleteVars, namespaceVars, courseDeleteVars, courseCreateVars, stateFileVars, extendedVars, pageLoopVars>>

AdapterNext == \E op \in AdapterOps, filePath \in PathInputs : AdapterCall(op, filePath)

\* C31: the filesystem path an adapter operation works on lies inside
\* baseDir, whatever the path string it was called with.
C31_ResolveInsideBaseDir == adOp # "none" => InsideBaseDir(adFull)

\* ------------------------------------------------------------------------
\* Overlapping course delete requests
\* ------------------------------------------------------------------------
\* DELETE /api/courses/:id awaits loadCourses, deleteVocabFile and
\* saveCourses: other requests run between them.  The index is modelled by
\* the filenames of its entries.

CourseFiles == {<<"a">>, <<"b">>, <<"c">>}

\* The indexes a user can have: the filenames in any order, none twice.
CourseIndexes ==
  {q \in SeqsUpTo(CourseFiles, MaxItems) : \A i, j \in DOMAIN q : q[i] = q[j] => i = j}

\* courses.findIndex(c => c.filename === `${courseId}.json`), 0 for -1
FindIndex(index, filename) ==
  IF \E i \in DOMAIN index : index[i] = filename
    THEN CHOOSE i \in DOMAIN index : index[i] = filename
    ELSE 0

CourseDeleteIdle ==
  /\ cdPc = [r \in Requests |-> "idle"]
  /\ cdCourseId = [r \in Requests |-> <<>>]
  /\ cdCourses = [r \in Requests |-> <<>>]
  /\ cdStatus = [r \in Requests |-> 0]
  /\ cdIndex = <<>>
  /\ cdFiles = {}

\* Every course of the index has its vocab file.
CourseDeleteInit ==
  /\ cdPc = [r \in Requests |-> "idle"]
  /\ cdCourseId = [r \in Requests |-> <<>>]
  /\ cdCourses = [r \in Requests |-> <<>>]
  /\ cdStatus = [r \in Requests |-> 0]
  /\ cdIndex \in CourseIndexes
  /\ cdFiles = Range(cdIndex)

\* const courses = await loadCourses(email); findIndex; 404 when not found
CourseDeleteLoad(r, filename) ==
  /\ cdPc[r] = "idle"
  /\ cdCourseId' = [cdCourseId EXCEPT ![r] = filename]
  /\ cdCourses' = [cdCourses EXCEPT ![r] = cdIndex]
  /\ IF FindIndex(cdIndex, filename) = 0
       THEN /\ cdPc' = [cdPc EXCEPT ![r] = "done"]
            /\ cdStatus' = [cdStatus EXCEPT ![r] = 404]
       ELSE /\ cdPc' = [cdPc EXCEPT ![r] = "deleteVocabFile"]
            /\ UNCHANGED cdStatus
  /\ UNCHANGED <<cdIndex, cdFiles>>
  /\ UNCHANGED otherThanCourseDelete

\* try { await deleteVocabFile(email, course.filename) } catch (err) { warn }:
\* a rejected unlink is logged and the request goes on.
CourseDeleteFile(r, rejected) ==
  /\ cdPc[r] = "deleteVocabFile"
  /\ cdPc' = [cdPc EXCEPT ![r] = "saveCourses"]
  /\ cdFiles' = IF rejected THEN cdFiles ELSE cdFiles \ {cdCourseId[r]}
  /\ UNCHANGED <<cdCourseId, cdCourses, cdStatus, cdIndex>>
  /\ UNCHANGED otherThanCourseDelete

\* courses.splice(courseIndex, 1); await saveCourses(email, courses);
\* res.json({ success: true, ... })
CourseDeleteSave(r) ==
  /\ cdPc[r] = "saveCourses"
  /\ cdPc' = [cdPc EXCEPT ![r] = "done"]
  /\ cdIndex' = Splice(cdCourses[r], FindIndex(cdCourses[r], cdCourseId[r]))
  /\ cdStatus' = [cdStatus EXCEPT ![r] = 200]
  /\ UNCHANGED <<cdCourseId, cdCourses, cdFiles>>
  /\ UNCHANGED otherThanCourseDelete

CourseDeleteNext ==
  \/ \E r \in Requests, filename \in CourseFiles : CourseDeleteLoad(r, filename)
  \/ \E r \in Requests, rejected \in BOOLEAN : CourseDeleteFile(r, rejected)
  \/ \E r \in Requests : CourseDeleteSave(r)

\* C32: once a course delete request has reported success, the course has
\* no entry in the index and its vocab file does not exist.
C32_DeleteRemovesBoth ==
  \A r \in Requests :
    (cdPc[r] = "done" /\ cdStatus[r] = 200) =>
      /\ FindIndex(cdIndex, cdCourseId[r]) = 0
      /\ cdCourseId[r] \notin cdFiles

\* ------------------------------------------------------------------------
\* Overlapping course create requests
\* ------------------------------------------------------------------------
\* POST /api/courses awaits storage.exists and then storage.write: other
\* requests run between them.

\* Course names of a request body: a letter and the blank.
CourseNameChars == {"a", " "}
CourseNameInputs == SeqsUpTo(CourseNameChars, MaxNameLen)

\* name.replace(/\s+/g, '_'): every run of blanks becomes one underscore
RECURSIVE ReplaceBlanks(_)
ReplaceBlanks(name) ==
  IF name = <<>> THEN <<>>
  ELSE IF Head(name) # " " THEN <<Head(name)>> \o ReplaceBlanks(Tail(name))
  ELSE IF Len(name) >= 2 /\ name[2] = " " THEN ReplaceBlanks(Tail(name))
  ELSE <<"_">> \o ReplaceBlanks(Tail(name))

\* `${safeName}.json`
SafeFilename(name) == ReplaceBlanks(name) \o JsonExt

\* await storage.exists(filePath)
ExistsInStorage(stored, filename) == filename \in DOMAIN stored

CourseCreateIdle ==
  /\ ccPc = [r \in Requests |-> "idle"]
  /\ ccName = [r \in Requests |-> <<>>]
  /\ ccContent = [r \in Requests |-> <<>>]
  /\ ccFilename = [r \in Requests |-> <<>>]
  /\ ccStatus = [r \in Requests |-> 0]
  /\ ccStored = <<>>

\* A user without courses, or with the course named a.
CourseCreateInit ==
  /\ ccPc = [r \in Requests |-> "idle"]
  /\ ccName = [r \in Requests |-> <<>>]
  /\ ccContent = [r \in Requests |-> <<>>]
  /\ ccFilename = [r \in Requests |-> <<>>]
  /\ ccStatus = [r \in Requests |-> 0]
  /\ \/ ccStored = <<>>
     \/ \E content \in ContentInputs : ccStored = Put(<<>>, SafeFilename(<<"a">>), content)

\* The request up to `if (await storage.exists(filePath))`: 400 for a
\* missing name, 400 from sanitizeFilename, 409 when the file exists.
CourseCreateCheck(r, name, content) ==
  /\ ccPc[r] = "idle"
  /\ ccName' = [ccName EXCEPT ![r] = name]
  /\ ccContent' = [ccContent EXCEPT ![r] = content]
  /\ IF name = <<>> \/ SanitizeFilenameThrows(SafeFilename(name))
       THEN /\ ccPc' = [ccPc EXCEPT ![r] = "done"]
            /\ ccStatus' = [ccStatus EXCEPT ![r] = 400]
            /\ UNCHANGED ccFilename
       ELSE /\ ccFilename' = [ccFilename EXCEPT ![r] = SafeFilename(name)]
            /\ IF ExistsInStorage(ccStored, SafeFilename(name))
                 THEN /\ ccPc' = [ccPc EXCEPT ![r] = "done"]
                      /\ ccStatus' = [ccStatus EXCEPT ![r] = 409]
                 ELSE /\ ccPc' = [ccPc EXCEPT ![r] = "write"]
                      /\ UNCHANGED ccStatus
  /\ UNCHANGED ccStored
  /\ UNCHANGED otherThanCourseCreate

\* await storage.write(filePath, content); res.status(201)
CourseCreateWrite(r) ==
  /\ ccPc[r] = "write"
  /\ ccPc' = [ccPc EXCEPT ![r] = "done"]
  /\ ccStored' = Put(ccStored, ccFilename[r], ccContent[r])
  /\ ccStatus' = [ccStatus EXCEPT ![r] = 201]
  /\ UNCHANGED <<ccName, ccContent, ccFilename>>
  /\ UNCHANGED otherThanCourseCreate

CourseCreateNext ==
  \/ \E r \in Requests, name \in CourseNameInputs, content \in ContentInputs :
       CourseCreateCheck(r, name, content)
  \/ \E r \in Requests : CourseCreateWrite(r)

\* C33: a create request for the name of an existing course is answered 409
\* and changes no stored content; of two create requests for the same name
\* exactly one succeeds, also when they overlap.
C33_DuplicateIsConflict ==
  /\ [](\A r1, r2 \in Requests :
         (r1 # r2 /\ ccStatus[r1] = 201 /\ ccStatus[r2] = 201)
           => ccFilename[r1] # ccFilename[r2])
  /\ [][\A r \in Requests :
          (ccStatus[r] = 0 /\ ccStatus'[r] = 409) => ccStored' = ccStored]_vars

\* ------------------------------------------------------------------------
\* The pageSize values the course routes store
\* ------------------------------------------------------------------------
\* sanitizeCourseUpdate (the 1..maxPageSize check) is called by no route:
\* POST /api/courses stores pageSize || 15 and PUT /api/courses/:id merges
\* the request body into the index entry.

maxPageSize == 100

\* pageSize of a request body: absent, and numbers in and out of range.
BodyPageSizes == {Undefined, 0 - 2, 0, 1, maxPageSize, maxPageSize + 1}
UpdatePageSizes == {0 - 2, 0, 1, maxPageSize, maxPageSize + 1}

PageSizeNext ==
  \/ \E step \in TickSteps : Tick(step)
  \/ \E name \in CourseNames, pageSize \in BodyPageSizes, content \in ContentInputs :
       CreateCourse(name, pageSize, content)
  \/ \E filename \in KnownFilenames, pageSize \in UpdatePageSizes :
       UpdateCourse(filename, pageSize)

\* C34: every pageSize stored in the course index (an entry may have none)
\* is an integer between 1 and 100, whatever the create and update requests
\* carried.
C34_PageSizeInRange ==
  \A i \in DOMAIN courses :
    courses[i].pageSize # Undefined => courses[i].pageSize \in 1..maxPageSize

\* ------------------------------------------------------------------------
\* The note of a snapshot
\* ------------------------------------------------------------------------

\* A note of n characters, no two neighbours alike.
NoteOfLength(n) == [i \in 1..n |-> IF i % 2 = 0 THEN "a" ELSE "b"]

\* Notes shorter than, as long as and longer than maxNoteLength.
LongNoteInputs ==
  {NoteOfLength(n) : n \in {0, 1, maxNoteLength - 1, maxNoteLength,
                            maxNoteLength + 1, 2 * maxNoteLength}}

NotesNext ==
  \/ \E step \in TickSteps : Tick(step)
  \/ \E note \in LongNoteInputs : CreateSnapshot(note)

\* C35: the note stored in a snapshot and the note of the returned metadata
\* are the first min(length, 500) characters of the note passed to
\* createSnapshot; no stored note is longer than 500 characters.
C35_NoteTruncated ==
  /\ \A id \in DOMAIN snapshots :
       LET note == atCreate[id].note
           kept == IF Len(note) < 500 THEN Len(note) ELSE 500
       IN /\ Len(snapshots[id].note) = kept
          /\ Len(snapshots[id].note) <= 500
          /\ \A i \in 1..kept : snapshots[id].note[i] = note[i]
  /\ lastOp = "createSnapshot" =>
       response.snapshot.note = snapshots[response.snapshot.id].note

\* A snapshot was created with a note of more than 500 characters.
C35_Witness ==
  /\ lastOp = "createSnapshot"
  /\ Len(atCreate[response.snapshot.id].note) > 500
  /\ Len(response.snapshot.note) = 500

\* ------------------------------------------------------------------------
\* server_state.json among the files of the user directory
\* ------------------------------------------------------------------------
\* getStateFilePath(email) and the path of a vocab file are both
\* path.join(getUserDataDir(email), <name>).

\* 'server_state.json'
StateFile == <<"s", "e", "r", "v", "e", "r", "_", "s", "t", "a", "t", "e">> \o JsonExt

\* The vocab file of the user's course.
CourseFile == <<"a">> \o JsonExt

\* Filenames a vocab file operation can be called with.
VocabFilenames == {CourseFile, StateFile, <<"a">>}

\* What a file holds: a vocabulary list, or the maintenance state.
VocabContent(list) ==
  [kind |-> "vocab", list |-> list, lastDecay |-> Undefined,
   lastAutoSnapshotWeek |-> Undefined]
StateContent(lastDecay, lastAutoSnapshotWeek) ==
  [kind |-> "state", list |-> <<>>, lastDecay |-> lastDecay,
   lastAutoSnapshotWeek |-> lastAutoSnapshotWeek]
AbsentFile == [kind |-> "none", list |-> <<>>, lastDecay |-> Undefined,
           lastAutoSnapshotWeek |-> Undefined]

\* What is stored under a filename.
Stored(dir, filename) == IF filename \in DOMAIN dir THEN dir[filename] ELSE AbsentFile

\* loadState(email): {} without the file, else what the file parses to
LoadState(dir) ==
  IF StateFile \in DOMAIN dir THEN dir[StateFile] ELSE StateContent(Undefined, Undefined)

\* saveState(email, state) after state[field] = value: JSON.stringify keeps
\* the field of an object and drops it from an array.
SaveState(dir, state) == Put(dir, StateFile, state)

\* Days of the decay check and weeks of the auto-snapshot check.
CheckUnits == {0, 1}

StateFileIdle ==
  /\ sfDir = <<>>
  /\ sfSnapshot = <<>>
  /\ sfOp = "none"
  /\ sfOps = 0

\* A user with one course, before or after the first check.
StateFileInit ==
  /\ \E list \in ContentInputs :
       \/ sfDir = Put(<<>>, CourseFile, VocabContent(list))
       \/ sfDir = Put(Put(<<>>, CourseFile, VocabContent(list)),
                      StateFile, StateContent(0, 0))
  /\ sfSnapshot = <<>>
  /\ sfOp = "none"
  /\ sfOps = 0

StateFileOp(op) ==
  /\ sfOps < MaxOps
  /\ sfOps' = sfOps + 1
  /\ sfOp' = op
  /\ UNCHANGED otherThanStateFile

\* UserFileService.loadVocabFile(email, filename)
StateLoadVocabFile(filename) ==
  /\ StateFileOp("loadVocabFile")
  /\ UNCHANGED <<sfDir, sfSnapshot>>

\* UserFileService.saveVocabFile(email, filename, data)
StateSaveVocabFile(filename, data) ==
  /\ StateFileOp("saveVocabFile")
  /\ sfDir' = IF SanitizeFilenameThrows(filename)
                THEN sfDir
                ELSE Put(sfDir, filename, VocabContent(data))
  /\ UNCHANGED sfSnapshot

\* UserFileService.deleteVocabFile(email, filename)
StateDeleteVocabFile(filename) ==
  /\ StateFileOp("deleteVocabFile")
  /\ sfDir' = IF SanitizeFilenameThrows(filename) \/ filename \notin DOMAIN sfDir
                THEN sfDir
                ELSE Remove(sfDir, filename)
  /\ UNCHANGED sfSnapshot

\* createSnapshot: the vocab file of every course of the index
StateCreateSnapshot ==
  /\ StateFileOp("createSnapshot")
  /\ sfSnapshot' = IF CourseFile \in DOMAIN sfDir
                     THEN Put(<<>>, CourseFile, sfDir[CourseFile])
                     ELSE <<>>
  /\ UNCHANGED sfDir

\* restoreSnapshot: saveVocabFile for every entry of snapshot.vocabFiles
StateRestoreSnapshot ==
  /\ StateFileOp("restoreSnapshot")
  /\ sfDir' = RestoredFiles(sfDir, sfSnapshot)
  /\ UNCHANGED sfSnapshot

\* The decay check on a new day: state.lastDecay = today; saveState
StateDecayCheck(today) ==
  /\ StateFileOp("decay")
  /\ LET state == LoadState(sfDir) IN
       sfDir' = IF AlreadyRunToday(state, today)
                  THEN sfDir
                  ELSE SaveState(sfDir, IF state.kind = "state"
                                          THEN [state EXCEPT !.lastDecay = today]
                                          ELSE state)
  /\ UNCHANGED sfSnapshot

\* checkAutoSnapshot in a new week: state.lastAutoSnapshotWeek = weekNumber;
\* saveState
StateAutoSnapshot(weekNumber) ==
  /\ StateFileOp("autoSnapshot")
  /\ LET state == LoadState(sfDir) IN
       sfDir' = IF SnapshotTakenThisWeek(state, weekNumber)
                  THEN sfDir
                  ELSE SaveState(sfDir, IF state.kind = "state"
                                          THEN [state EXCEPT !.lastAutoSnapshotWeek = weekNumber]
                                          ELSE state)
  /\ UNCHANGED sfSnapshot

StateFileNext ==
  \/ \E filename \in VocabFilenames : StateLoadVocabFile(filename)
  \/ \E filename \in VocabFilenames, data \in ContentInputs :
       StateSaveVocabFile(filename, data)
  \/ \E filename \in VocabFilenames : StateDeleteVocabFile(filename)
  \/ StateCreateSnapshot
  \/ StateRestoreSnapshot
  \/ \E today \in CheckUnits : StateDecayCheck(today)
  \/ \E weekNumber \in CheckUnits : StateAutoSnapshot(weekNumber)

\* C36: what server_state.json holds is changed by the decay check and the
\* auto-snapshot check only; vocab load, save and delete, snapshot create
\* and restore leave it as it is.
C36_StateChangedOnlyByChecks ==
  [][Stored(sfDir', StateFile) # Stored(sfDir, StateFile)
       => sfOp' \in {"decay", "autoSnapshot"}]_vars

\* ------------------------------------------------------------------------
\* A vocab file in the extended form {metadata, content: [items]}
\* ------------------------------------------------------------------------
\* loadVocabFile returns whatever JSON.parse gives: the array of a legacy
\* file, the object of an extended one.

\* The two forms of a file holding the same items.
LegacyFile(list) == [form |-> "array", metadata |-> <<>>, content |-> list]
ExtendedFile(list) == [form |-> "object", metadata |-> <<"m">>, content |-> list]

NoArg == [itemId |-> 0, states |-> <<>>, pageSize |-> 0]

\* Array.isArray(vocab): vocab.findIndex and vocab.map exist
IsArray(file) == file.form = "array"

ExtendedIdle ==
  /\ efFile = LegacyFile(<<>>)
  /\ efOp = "none"
  /\ efArg = NoArg
  /\ efStatus = 0
  /\ efOps = 0

ExtendedInit ==
  /\ \E list \in ContentInputs : efFile \in {LegacyFile(list), ExtendedFile(list)}
  /\ efOp = "none"
  /\ efArg = NoArg
  /\ efStatus = 0
  /\ efOps = 0

ExtendedOp(op, arg) ==
  /\ efOps < MaxOps
  /\ efOps' = efOps + 1
  /\ efOp' = op
  /\ efArg' = arg
  /\ UNCHANGED otherThanExtended

\* GET /api/vocab-files/:filename: res.json(JSON.parse(content))
ExtendedLoad ==
  /\ ExtendedOp("load", NoArg)
  /\ efStatus' = 200
  /\ UNCHANGED efFile

\* PATCH /api/vocab-files/:courseId/:id: vocab.findIndex(...) throws a
\* TypeError for an object, answered 500; 404 for an unknown item.
ExtendedPatch(itemId, states) ==
  /\ ExtendedOp("patch", [itemId |-> itemId, states |-> states, pageSize |-> 0])
  /\ IF ~IsArray(efFile)
       THEN /\ efStatus' = 500
            /\ UNCHANGED efFile
       ELSE LET i == FindItem(efFile.content, itemId) IN
              IF i = 0
                THEN /\ efStatus' = 404
                     /\ UNCHANGED efFile
                ELSE /\ efStatus' = 200
                     /\ efFile' = [efFile EXCEPT !.content[i].hasStates = TRUE,
                                                 !.content[i].states = states,
                                                 !.content[i].lastUpdated = 0]

\* The decay route for the course of the file: applyDecay(vocab, pageSize)
\* throws at vocab.map for an object, the catch of the course loop logs it.
ExtendedDecay(pageSize) ==
  /\ ExtendedOp("decay", [itemId |-> 0, states |-> <<>>, pageSize |-> pageSize])
  /\ efStatus' = 200
  /\ IF ~IsArray(efFile)
       THEN UNCHANGED efFile
       ELSE LET d == applyDecay(efFile.content, pageSize) IN
              efFile' = IF d.modified THEN [efFile EXCEPT !.content = d.vocab]
                        ELSE efFile

ExtendedNext ==
  \/ ExtendedLoad
  \/ \E itemId \in ItemIds, states \in StatesInputs : ExtendedPatch(itemId, states)
  \/ \E pageSize \in PageSizeInputs : ExtendedDecay(pageSize)

\* C37: item-state update and decay do to the items of an extended file what
\* they do to a legacy array of the same items, and keep its metadata.
C37_ExtendedAsLegacy ==
  [][efOps' = efOps + 1 =>
       /\ efFile'.form = efFile.form
       /\ efFile'.metadata = efFile.metadata
       /\ Len(efFile'.content) = Len(efFile.content)
       /\ efOp' = "patch" =>
            LET i == FindItem(efFile.content, efArg'.itemId) IN
              IF i = 0 THEN efStatus' = 404 /\ efFile' = efFile
              ELSE efStatus' = 200 /\ efFile'.content[i].states = efArg'.states
       /\ efOp' = "decay" =>
            LET d == applyDecay(efFile.content, efArg'.pageSize) IN
              efFile'.content = IF d.modified THEN d.vocab ELSE efFile.content]_vars

\* ------------------------------------------------------------------------
\* The page loop of decay, one iteration at a time
\* ------------------------------------------------------------------------
\* for (let pageStart = 0; pageStart < result.length; pageStart += pageSize)
\* with pageSize = course.pageSize || CONFIG.defaultPageSize, for the
\* pageSize values the course routes store.

PageLoopIdle ==
  /\ plStored = Undefined
  /\ plPc = "idle"
  /\ plLength = 0
  /\ plPageStart = 0
  /\ plIterations = 0

\* POST /api/courses: pageSize: pageSize || 15
PageLoopCreate(pageSize) ==
  /\ plPc = "idle"
  /\ plStored' = PageSizeOr(pageSize)
  /\ UNCHANGED <<plPc, plLength, plPageStart, plIterations>>
  /\ UNCHANGED otherThanPageLoop

\* PUT /api/courses/:id: {...courses[courseIndex], ...updates}
PageLoopUpdate(pageSize) ==
  /\ plPc = "idle"
  /\ plStored' = pageSize
  /\ UNCHANGED <<plPc, plLength, plPageStart, plIterations>>
  /\ UNCHANGED otherThanPageLoop

\* The decay route reaches applyDecay for the course, its list length items
\* long: let pageStart = 0
PageLoopEnter(length) ==
  /\ plPc = "idle"
  /\ plPc' = "loop"
  /\ plLength' = length
  /\ plPageStart' = 0
  /\ plIterations' = 0
  /\ UNCHANGED plStored
  /\ UNCHANGED otherThanPageLoop

\* pageStart < result.length: the body runs, then pageStart += pageSize
PageLoopIteration ==
  /\ plPc = "loop"
  /\ plPageStart < plLength
  /\ plIterations < MaxIterations
  /\ plPageStart' = plPageStart + PageSizeOr(plStored)
  /\ plIterations' = plIterations + 1
  /\ UNCHANGED <<plStored, plPc, plLength>>
  /\ UNCHANGED otherThanPageLoop

\* pageStart < result.length is false: return { vocab: result, modified }
PageLoopExit ==
  /\ plPc = "loop"
  /\ plPageStart >= plLength
  /\ plPc' = "idle"
  /\ UNCHANGED <<plStored, plLength, plPageStart, plIterations>>
  /\ UNCHANGED otherThanPageLoop

PageLoopNext ==
  \/ \E pageSize \in BodyPageSizes : PageLoopCreate(pageSize)
  \/ \E pageSize \in UpdatePageSizes : PageLoopUpdate(pageSize)
  \/ \E length \in 0..MaxItems : PageLoopEnter(length)
  \/ PageLoopIteration
  \/ PageLoopExit

\* C39: the page start index strictly increases on each iteration of the
\* page loop, for every pageSize the create and update routes store.
C39_PageStartIncreases ==
  [][plIterations' = plIterations + 1 => plPageStart' > plPageStart]_vars

\* Concurrent callers of ensureUserDataDir for one new user.
InitSpecEnsure == EnsureInit /\ DecayIdle /\ RepoIdle /\ FilesIdle /\ WriteIdle /\ MaintIdle /\ SnapIdle /\ CheckIdle /\ StoreIdle /\ DeleteIdle /\ NamespaceIdle /\ AdapterIdle /\ CourseDeleteIdle /\ CourseCreateIdle /\ StateFileIdle /\ ExtendedIdle /\ PageLoopIdle
SpecEnsure == InitSpecEnsure /\ [][EnsureNext]_vars

\* applyDecay on every bounded vocabulary list and pageSize.
InitSpecDecay == DecayInit /\ EnsureIdle /\ RepoIdle /\ FilesIdle /\ WriteIdle /\ MaintIdle /\ SnapIdle /\ CheckIdle /\ StoreIdle /\ DeleteIdle /\ NamespaceIdle /\ AdapterIdle /\ CourseDeleteIdle /\ CourseCreateIdle /\ StateFileIdle /\ ExtendedIdle /\ PageLoopIdle
SpecDecay == InitSpecDecay /\ [][DecayNext]_vars

\* applyDecay on lists of whole items carrying any of the four review marks.
InitSpecDecayWhole == DecayInitWhole /\ EnsureIdle /\ RepoIdle /\ FilesIdle /\ WriteIdle /\ MaintIdle /\ SnapIdle /\ CheckIdle /\ StoreIdle /\ DeleteIdle /\ NamespaceIdle /\ AdapterIdle /\ CourseDeleteIdle /\ CourseCreateIdle /\ StateFileIdle /\ ExtendedIdle /\ PageLoopIdle
SpecDecayWhole == InitSpecDecayWhole /\ [][DecayNext]_vars

\* applyDecay on lists with longer states arrays.
InitSpecDecayLong == DecayInitLong /\ EnsureIdle /\ RepoIdle /\ FilesIdle /\ WriteIdle /\ MaintIdle /\ SnapIdle /\ CheckIdle /\ StoreIdle /\ DeleteIdle /\ NamespaceIdle /\ AdapterIdle /\ CourseDeleteIdle /\ CourseCreateIdle /\ StateFileIdle /\ ExtendedIdle /\ PageLoopIdle
SpecDecayLong == InitSpecDecayLong /\ [][DecayNext]_vars

\* One user's requests, handled one at a time.
InitSpecRepo == RepoInit /\ EnsureIdle /\ DecayIdle /\ FilesIdle /\ WriteIdle /\ MaintIdle /\ SnapIdle /\ CheckIdle /\ StoreIdle /\ DeleteIdle /\ NamespaceIdle /\ AdapterIdle /\ CourseDeleteIdle /\ CourseCreateIdle /\ StateFileIdle /\ ExtendedIdle /\ PageLoopIdle
SpecRepo == InitSpecRepo /\ [][RepoNext]_vars

\* Vocab file operations of one user, one at a time.
InitSpecFiles == FilesInit /\ EnsureIdle /\ DecayIdle /\ RepoIdle /\ WriteIdle /\ MaintIdle /\ SnapIdle /\ CheckIdle /\ StoreIdle /\ DeleteIdle /\ NamespaceIdle /\ AdapterIdle /\ CourseDeleteIdle /\ CourseCreateIdle /\ StateFileIdle /\ ExtendedIdle /\ PageLoopIdle
SpecFiles == InitSpecFiles /\ [][FilesNext]_vars

\* Writers of one file, their filesystem steps interleaved.
InitSpecWrite == WriteInit /\ EnsureIdle /\ DecayIdle /\ RepoIdle /\ FilesIdle /\ MaintIdle /\ SnapIdle /\ CheckIdle /\ StoreIdle /\ DeleteIdle /\ NamespaceIdle /\ AdapterIdle /\ CourseDeleteIdle /\ CourseCreateIdle /\ StateFileIdle /\ ExtendedIdle /\ PageLoopIdle
SpecWrite == InitSpecWrite /\ [][WriteNext]_vars

\* One createSnapshot call, its steps interleaved with the user's other requests.
InitSpecSnap == RepoInit /\ SnapIdle /\ EnsureIdle /\ DecayIdle /\ FilesIdle /\ WriteIdle /\ MaintIdle /\ CheckIdle /\ StoreIdle /\ DeleteIdle /\ NamespaceIdle /\ AdapterIdle /\ CourseDeleteIdle /\ CourseCreateIdle /\ StateFileIdle /\ ExtendedIdle /\ PageLoopIdle
SpecSnap == InitSpecSnap /\ [][SnapNext]_vars

\* Course listings of one user, operations of the automatic snapshot may fail.
InitSpecCheck == RepoInit /\ CheckInit /\ SnapIdle /\ EnsureIdle /\ DecayIdle /\ FilesIdle /\ WriteIdle /\ MaintIdle /\ StoreIdle /\ DeleteIdle /\ NamespaceIdle /\ AdapterIdle /\ CourseDeleteIdle /\ CourseCreateIdle /\ StateFileIdle /\ ExtendedIdle /\ PageLoopIdle
SpecCheck == InitSpecCheck /\ [][CheckNext]_vars

\* Decay checks of one user, file operations of a course may be rejected.
InitSpecDecayRun == RepoInit /\ EnsureIdle /\ DecayIdle /\ FilesIdle /\ WriteIdle /\ MaintIdle /\ SnapIdle /\ CheckIdle /\ StoreIdle /\ DeleteIdle /\ NamespaceIdle /\ AdapterIdle /\ CourseDeleteIdle /\ CourseCreateIdle /\ StateFileIdle /\ ExtendedIdle /\ PageLoopIdle
SpecDecayRun == InitSpecDecayRun /\ [][DecayRunNext]_vars

\* Requests that store items, starting from files of full states arrays.
InitSpecStates == StatesInit /\ EnsureIdle /\ DecayIdle /\ FilesIdle /\ WriteIdle /\ MaintIdle /\ SnapIdle /\ CheckIdle /\ StoreIdle /\ DeleteIdle /\ NamespaceIdle /\ AdapterIdle /\ CourseDeleteIdle /\ CourseCreateIdle /\ StateFileIdle /\ ExtendedIdle /\ PageLoopIdle
SpecStates == InitSpecStates /\ [][StatesNext]_vars

\* Snapshot requests by id, snapshot files may become unreadable.
InitSpecSnapshots == RepoInit /\ StoreIdle /\ EnsureIdle /\ DecayIdle /\ FilesIdle /\ WriteIdle /\ MaintIdle /\ SnapIdle /\ CheckIdle /\ DeleteIdle /\ NamespaceIdle /\ AdapterIdle /\ CourseDeleteIdle /\ CourseCreateIdle /\ StateFileIdle /\ ExtendedIdle /\ PageLoopIdle
SpecSnapshots == InitSpecSnapshots /\ [][SnapshotsNext]_vars

\* Decay checks and auto-snapshot checks of one user, their steps interleaved.
InitSpecMaint == RepoInit /\ MaintIdle /\ EnsureIdle /\ DecayIdle /\ FilesIdle /\ WriteIdle /\ SnapIdle /\ CheckIdle /\ StoreIdle /\ DeleteIdle /\ NamespaceIdle /\ AdapterIdle /\ CourseDeleteIdle /\ CourseCreateIdle /\ StateFileIdle /\ ExtendedIdle /\ PageLoopIdle
SpecMaint == InitSpecMaint /\ [][MaintNext]_vars

\* deleteVocabFile calls of one user, their steps interleaved.
InitSpecDelete == DeleteInit /\ EnsureIdle /\ DecayIdle /\ RepoIdle /\ FilesIdle /\ WriteIdle /\ MaintIdle /\ SnapIdle /\ CheckIdle /\ StoreIdle /\ NamespaceIdle /\ AdapterIdle /\ CourseDeleteIdle /\ CourseCreateIdle /\ StateFileIdle /\ ExtendedIdle /\ PageLoopIdle
SpecDelete == InitSpecDelete /\ [][DeleteNext]_vars

\* Saves and loads made for users of different emails.
InitSpecNamespace == NamespaceIdle /\ EnsureIdle /\ DecayIdle /\ RepoIdle /\ FilesIdle /\ WriteIdle /\ MaintIdle /\ SnapIdle /\ CheckIdle /\ StoreIdle /\ DeleteIdle /\ AdapterIdle /\ CourseDeleteIdle /\ CourseCreateIdle /\ StateFileIdle /\ ExtendedIdle /\ PageLoopIdle
SpecNamespace == InitSpecNamespace /\ [][NamespaceNext]_vars

\* FileSystemAdapter operations called with every bounded path string.
InitSpecAdapter == AdapterIdle /\ EnsureIdle /\ DecayIdle /\ RepoIdle /\ FilesIdle /\ WriteIdle /\ MaintIdle /\ SnapIdle /\ CheckIdle /\ StoreIdle /\ DeleteIdle /\ NamespaceIdle /\ CourseDeleteIdle /\ CourseCreateIdle /\ StateFileIdle /\ ExtendedIdle /\ PageLoopIdle
SpecAdapter == InitSpecAdapter /\ [][AdapterNext]_vars

\* Course delete requests of one user, their steps interleaved.
InitSpecCourseDelete == CourseDeleteInit /\ EnsureIdle /\ DecayIdle /\ RepoIdle /\ FilesIdle /\ WriteIdle /\ MaintIdle /\ SnapIdle /\ CheckIdle /\ StoreIdle /\ DeleteIdle /\ NamespaceIdle /\ AdapterIdle /\ CourseCreateIdle /\ StateFileIdle /\ ExtendedIdle /\ PageLoopIdle
SpecCourseDelete == InitSpecCourseDelete /\ [][CourseDeleteNext]_vars

\* Course create requests of one user, their steps interleaved.
InitSpecCourseCreate == CourseCreateInit /\ EnsureIdle /\ DecayIdle /\ RepoIdle /\ FilesIdle /\ WriteIdle /\ MaintIdle /\ SnapIdle /\ CheckIdle /\ StoreIdle /\ DeleteIdle /\ NamespaceIdle /\ AdapterIdle /\ CourseDeleteIdle /\ StateFileIdle /\ ExtendedIdle /\ PageLoopIdle
SpecCourseCreate == InitSpecCourseCreate /\ [][CourseCreateNext]_vars

\* Course create and update requests with any pageSize.
InitSpecPageSize == RepoInit /\ EnsureIdle /\ DecayIdle /\ FilesIdle /\ WriteIdle /\ MaintIdle /\ SnapIdle /\ CheckIdle /\ StoreIdle /\ DeleteIdle /\ NamespaceIdle /\ AdapterIdle /\ CourseDeleteIdle /\ CourseCreateIdle /\ StateFileIdle /\ ExtendedIdle /\ PageLoopIdle
SpecPageSize == InitSpecPageSize /\ [][PageSizeNext]_vars

\* Snapshots created with notes of any length.
InitSpecNotes == RepoInit /\ EnsureIdle /\ DecayIdle /\ FilesIdle /\ WriteIdle /\ MaintIdle /\ SnapIdle /\ CheckIdle /\ StoreIdle /\ DeleteIdle /\ NamespaceIdle /\ AdapterIdle /\ CourseDeleteIdle /\ CourseCreateIdle /\ StateFileIdle /\ ExtendedIdle /\ PageLoopIdle
SpecNotes == InitSpecNotes /\ [][NotesNext]_vars

\* File operations and checks of one user, one at a time.
InitSpecStateFile == StateFileInit /\ EnsureIdle /\ DecayIdle /\ RepoIdle /\ FilesIdle /\ WriteIdle /\ MaintIdle /\ SnapIdle /\ CheckIdle /\ StoreIdle /\ DeleteIdle /\ NamespaceIdle /\ AdapterIdle /\ CourseDeleteIdle /\ CourseCreateIdle /\ ExtendedIdle /\ PageLoopIdle
SpecStateFile == InitSpecStateFile /\ [][StateFileNext]_vars

\* Operations on a vocab file of either form, one at a time.
InitSpecExtended == ExtendedInit /\ EnsureIdle /\ DecayIdle /\ RepoIdle /\ FilesIdle /\ WriteIdle /\ MaintIdle /\ SnapIdle /\ CheckIdle /\ StoreIdle /\ DeleteIdle /\ NamespaceIdle /\ AdapterIdle /\ CourseDeleteIdle /\ CourseCreateIdle /\ StateFileIdle /\ PageLoopIdle
SpecExtended == InitSpecExtended /\ [][ExtendedNext]_vars

\* The page loop of decay for the stored pageSize values.
InitSpecPageLoop == PageLoopIdle /\ EnsureIdle /\ DecayIdle /\ RepoIdle /\ FilesIdle /\ WriteIdle /\ MaintIdle /\ SnapIdle /\ CheckIdle /\ StoreIdle /\ DeleteIdle /\ NamespaceIdle /\ AdapterIdle /\ CourseDeleteIdle /\ CourseCreateIdle /\ StateFileIdle /\ ExtendedIdle
SpecPageLoop == InitSpecPageLoop /\ [][PageLoopNext]_vars

====
